---- MODULE Spec2Model ----
(***************************************************************************)
(* Model of core/net/uip-mcast6/roll-trickle.c: IPv6 multicast forwarding  *)
(* with Trickle (sliding windows, packet buffer, two Trickle timers,       *)
(* control-message consistency check, forwarder pass, egress tagging).     *)
(*                                                                         *)
(* Every node of the network runs one copy of the engine; the variables    *)
(* are the file's statics, indexed by node.  Handlers are operators from   *)
(* a node's statics (a record s) and the handler's inputs to the statics   *)
(* after the handler has returned.                                         *)
(***************************************************************************)
EXTENDS Integers, Sequences, FiniteSets, TLC

VARIABLES
  windows,        \* [node -> [0..WINS-1 -> struct sliding_window]]
  buffered_msgs,  \* [node -> [0..BUFF_NUM-1 -> struct mcast_packet]]
  t,              \* [node -> [0..1 -> struct trickle_param]]
  loctpptr,       \* [node -> NULL or 0..1]   static struct trickle_param *
  uip_buf,        \* [node -> the 16-bit words of uip_buf from byte 48 on]
  last_seq,       \* [node -> 0..0x7FFF]
  crashed,        \* [node -> BOOLEAN]  a NULL pointer was written through and trapped
  ready,          \* [node -> BOOLEAN]  uip_ds6_get_link_local(ADDR_PREFERRED) != NULL
  now,            \* clock_time()
  late,           \* the ticks so far by which the clock advanced while a
                  \* callback was due or a call was running
  inbox,          \* [node -> Seq(frame)]  frames on the air towards the node
  calls,          \* the number of up-calls (accept, icmp_input, out) so far
  last,           \* what the last handler call returned, emitted and counted
  admitted        \* [node -> the datagrams (seed, M, value, hop limit h,
                  \*  direction in) roll_trickle_accept has returned 1 for
                  \*  since the window of (seed, M) is used]

vars == <<windows, buffered_msgs, t, loctpptr, uip_buf, last_seq, crashed, ready,
          now, late, inbox, calls, last, admitted>>

(***************************************************************************)
(* Build configuration (roll-trickle.h, uip-conf); the sizes of the two     *)
(* tables, ROLL_TRICKLE_WINS and ROLL_TRICKLE_BUFF_NUM, are those of the   *)
(* tables in the state.                                                    *)
(***************************************************************************)
ROLL_TRICKLE_WINS == 2
ROLL_TRICKLE_BUFF_NUM == 2
ROLL_TRICKLE_INFINITE_REDUNDANCY == 255
ROLL_TRICKLE_IMIN_0 == 4
ROLL_TRICKLE_IMAX_0 == 1
ROLL_TRICKLE_K_0 == 255
ROLL_TRICKLE_T_ACTIVE_0 == 1
ROLL_TRICKLE_T_DWELL_0 == 1
ROLL_TRICKLE_IMIN_1 == 4
ROLL_TRICKLE_IMAX_1 == 1
ROLL_TRICKLE_K_1 == 1
ROLL_TRICKLE_T_ACTIVE_1 == 1
ROLL_TRICKLE_T_DWELL_1 == 1
ROLL_TRICKLE_SET_M_BIT == 0
ROLL_TRICKLE_DGRAM_OUT == 0
ROLL_TRICKLE_DGRAM_IN == 1
\* clock_time_t is an unsigned 16-bit counter
CLOCK_MOD == 65536

NULL == -1
\* struct sequence_list_header: flags, seq_len and a short seed id
SEQUENCE_LIST_HEADER_LEN == 4
SEQUENCE_LIST_S_BIT == 128
SEQUENCE_LIST_M_BIT == 64
SEQUENCE_LIST_RES == 63
\* the slots of a table (windows[ROLL_TRICKLE_WINS], buffered_msgs[ROLL_TRICKLE_BUFF_NUM])
Slots(num) == 0 .. (num - 1)

Max(S) == CHOOSE x \in S : \A y \in S : y <= x

\* (int16_t)x for an int x
Int16(x) == LET y == x % 65536 IN IF y >= 32768 THEN y - 65536 ELSE y
\* (uint8_t)x
U8(x) == x % 256
\* (clock_time_t)x
Clk(x) == x % CLOCK_MOD
\* m << d
Shl(m, d) == m * (2 ^ d)
\* m >> 1
Shr1(m) == m \div 2

(***************************************************************************)
(* Sequence values, serial number arithmetic (RFC 1982, 15 bits).  The     *)
(* operands are promoted to int: a uint16_t sequence value against an      *)
(* int16_t bound that may be the -1 sentinel.                              *)
(***************************************************************************)
SEQ_VAL_IS_EQ(i1, i2) == i1 = i2

\* a variant that takes a distance of 0x4000 for "less than"
SEQ_VAL_IS_LT_incl(i1, i2) ==
  /\ i1 # i2
  /\ \/ (i1 < i2 /\ Int16(i2 - i1) <= 16384)
     \/ (i1 > i2 /\ Int16(i1 - i2) > 16384)

SEQ_VAL_IS_LT(i1, i2) ==
  /\ i1 # i2
  /\ \/ (i1 < i2 /\ Int16(i2 - i1) < 16384)
     \/ (i1 > i2 /\ Int16(i1 - i2) > 16384)

SEQ_VAL_IS_GT(i1, i2) ==
  /\ i1 # i2
  /\ \/ (i1 < i2 /\ Int16(i2 - i1) > 16384)
     \/ (i1 > i2 /\ Int16(i1 - i2) < 16384)

\* a variant that does not wrap
SEQ_VAL_ADD_nowrap(s, n) == s + n

SEQ_VAL_ADD(s, n) == (s + n) % 32768

(***************************************************************************)
(* Trickle timers                                                          *)
(***************************************************************************)
TRICKLE_TIME(m, d) == Clk(Shl(m, d))
TRICKLE_IMAX(p) == Shl(p.i_min, p.i_max)
TRICKLE_ACTIVE(p) == TRICKLE_IMAX(p) * p.t_active
TRICKLE_DWELL(p) == TRICKLE_IMAX(p) * p.t_dwell
SUPPRESSION_ENABLED(p) == p.k # ROLL_TRICKLE_INFINITE_REDUNDANCY
SUPPRESSION_DISABLED(p) == p.k = ROLL_TRICKLE_INFINITE_REDUNDANCY

\* ctimer_set(&ct, delay, f, ptr) at clock time clk: one one-shot slot per timer
ctimer_set(clk, delay, f) == [f |-> f, start |-> clk, interval |-> delay]
\* the slot's callback is due
ctimer_expired(ct, clk) == Clk(clk - ct.start) >= ct.interval

\* rnd is the value random_rand() returns
random_interval(i_min, d, rnd) ==
  LET min == TRICKLE_TIME(Shr1(i_min), d)
  IN  Clk(min + (rnd % Clk(TRICKLE_TIME(i_min, d) - 1 - min)))

reset_trickle_timer(tt, index, clk, rnd) ==
  LET next == random_interval(tt[index].i_min, 0, rnd)
  IN  [tt EXCEPT ![index] =
        [@ EXCEPT !.t_start = clk,
                  !.t_end = Clk(clk + tt[index].i_min),
                  !.i_current = 0,
                  !.c = 0,
                  !.t_next = next,
                  !.ct = ctimer_set(clk, next, "handle_timer")]]

\* a variant that doubles without the cap of i_max
double_interval_uncapped(p, clk, rnd) ==
  LET offset == Int16(Clk(clk - p.t_end))
      i1 == p.i_current + 1
      rnext == random_interval(p.i_min, i1, rnd)
      next == IF rnext > offset THEN Clk(rnext - offset) ELSE 0
  IN  [p EXCEPT !.i_current = i1, !.t_start = p.t_end,
                !.t_end = Clk(p.t_end + Shl(p.i_min, i1)),
                !.t_next = next,
                !.ct = ctimer_set(clk, next, "handle_timer")]

\* a variant that leaves t_start where it was
double_interval_keeps_start(p, clk, rnd) ==
  LET offset == Int16(Clk(clk - p.t_end))
      i1 == IF p.i_current < p.i_max THEN p.i_current + 1 ELSE p.i_current
      rnext == random_interval(p.i_min, i1, rnd)
      next == IF rnext > offset THEN Clk(rnext - offset) ELSE 0
  IN  [p EXCEPT !.i_current = i1,
                !.t_end = Clk(p.t_end + Shl(p.i_min, i1)),
                !.t_next = next,
                !.ct = ctimer_set(clk, next, "handle_timer")]

\* a variant that arms double_interval again instead of handle_timer
double_interval_rearms_itself(p, clk, rnd) ==
  LET offset == Int16(Clk(clk - p.t_end))
      i1 == IF p.i_current < p.i_max THEN p.i_current + 1 ELSE p.i_current
      ts == p.t_end
      te == Clk(ts + Shl(p.i_min, i1))
      rnext == random_interval(p.i_min, i1, rnd)
      next == IF rnext > offset THEN Clk(rnext - offset) ELSE 0
  IN  [p EXCEPT !.i_current = i1, !.t_start = ts, !.t_end = te,
                !.t_next = next,
                !.ct = ctimer_set(clk, next, "double_interval")]

double_interval(p, clk, rnd) ==
  LET offset == Int16(Clk(clk - p.t_end))
      i1 == IF p.i_current < p.i_max THEN p.i_current + 1 ELSE p.i_current
      ts == p.t_end
      te == Clk(ts + Shl(p.i_min, i1))
      rnext == random_interval(p.i_min, i1, rnd)
      next == IF rnext > offset THEN Clk(rnext - offset) ELSE 0
  IN  [p EXCEPT !.i_current = i1, !.t_start = ts, !.t_end = te,
                !.t_next = next,
                !.ct = ctimer_set(clk, next, "handle_timer")]

TIMER_CONFIGURE(m, clk) ==
  [i_min |-> IF m = 0 THEN ROLL_TRICKLE_IMIN_0 ELSE ROLL_TRICKLE_IMIN_1,
   i_max |-> IF m = 0 THEN ROLL_TRICKLE_IMAX_0 ELSE ROLL_TRICKLE_IMAX_1,
   k |-> IF m = 0 THEN ROLL_TRICKLE_K_0 ELSE ROLL_TRICKLE_K_1,
   t_active |-> IF m = 0 THEN ROLL_TRICKLE_T_ACTIVE_0 ELSE ROLL_TRICKLE_T_ACTIVE_1,
   t_dwell |-> IF m = 0 THEN ROLL_TRICKLE_T_DWELL_0 ELSE ROLL_TRICKLE_T_DWELL_1,
   t_start |-> 0, t_end |-> 0, t_next |-> 0, t_last_trigger |-> clk,
   i_current |-> 0, c |-> 0, inconsistency |-> 0,
   ct |-> [f |-> "none", start |-> 0, interval |-> 0]]

(***************************************************************************)
(* Sliding windows and packet buffers                                      *)
(***************************************************************************)
\* memset(windows, 0, ...) followed by the bounds of roll_trickle_init
ZeroWindow ==
  [seed_id |-> 0, lower_bound |-> -1, upper_bound |-> -1, min_listed |-> -1,
   used |-> FALSE, m |-> 0, listed |-> FALSE, count |-> 0]

\* a datagram as the engine reads it: the header checks of accept (ok), the
\* seed id, the M bit and the sequence value of its option, its hop limit,
\* and what follows the hop-by-hop header (upper: the 16-bit words of the
\* bytes 48 on, to the end of the datagram)
ZeroDgram ==
  [ok |-> FALSE, seed |-> 0, m |-> 0, seq |-> 0, ttl |-> 0, upper |-> <<>>]

\* memset(buffered_msgs, 0, ...)
ZeroPacket ==
  [active |-> 0, dwell |-> 0, seq_val |-> 0, sw |-> NULL,
   used |-> FALSE, must_send |-> FALSE, listed |-> FALSE, buff |-> ZeroDgram]

SLIDING_WINDOW_GET_M(w) == w.m
window_free(w) == [w EXCEPT !.used = FALSE]
MCAST_PACKET_FREE(p) ==
  [p EXCEPT !.used = FALSE, !.must_send = FALSE, !.listed = FALSE]
MCAST_PACKET_TTL(p) == p.buff.ttl

\* the slot window_allocate returns (the scan runs from the last slot down)
window_allocate_slot(wins) ==
  LET free == {i \in DOMAIN wins : ~wins[i].used}
  IN  IF free = {} THEN NULL ELSE Max(free)

\* the table after window_allocate
window_allocate(wins) ==
  LET i == window_allocate_slot(wins)
  IN  IF i = NULL THEN wins
      ELSE [wins EXCEPT ![i] = [@ EXCEPT !.count = 0, !.lower_bound = -1,
                                         !.upper_bound = -1, !.min_listed = -1]]

\* a variant that finds no window
window_lookup_none(wins, s, m) == NULL

\* the used bit is not looked at
window_lookup(wins, s, m) ==
  LET hit == {i \in DOMAIN wins : wins[i].seed_id = s /\ SLIDING_WINDOW_GET_M(wins[i]) = m}
  IN  IF hit = {} THEN NULL ELSE Max(hit)

RECURSIVE update_bounds_scan(_, _, _)
update_bounds_scan(wins, msgs, i) ==
  IF i < 0 THEN wins
  ELSE IF msgs[i].used
       THEN LET w == msgs[i].sw
                sv == msgs[i].seq_val
                lb == IF wins[w].lower_bound < 0 \/ SEQ_VAL_IS_LT(sv, wins[w].lower_bound)
                      THEN sv ELSE wins[w].lower_bound
                ub == IF wins[w].upper_bound < 0 \/ SEQ_VAL_IS_GT(sv, wins[w].upper_bound)
                      THEN sv ELSE wins[w].upper_bound
            IN  update_bounds_scan(
                  [wins EXCEPT ![w].lower_bound = lb, ![w].upper_bound = ub],
                  msgs, i - 1)
       ELSE update_bounds_scan(wins, msgs, i - 1)

window_update_bounds(wins, msgs) ==
  update_bounds_scan([i \in DOMAIN wins |-> [wins[i] EXCEPT !.lower_bound = -1]],
                     msgs, Max(DOMAIN msgs))

buffer_allocate(msgs) ==
  LET free == {i \in DOMAIN msgs : ~msgs[i].used}
  IN  IF free = {} THEN NULL ELSE Max(free)

\* the window buffer_reclaim evicts from: slot 0 unless a later-scanned slot
\* counts strictly more
RECURSIVE reclaim_largest(_, _, _)
reclaim_largest(wins, i, largest) ==
  IF i < 0 THEN largest
  ELSE reclaim_largest(wins, i - 1,
         IF wins[i].count > wins[largest].count THEN i ELSE largest)

\* rv: the slot freed (NULL when nothing can be reclaimed)
buffer_reclaim(wins, msgs) ==
  LET largest == reclaim_largest(wins, Max(DOMAIN wins), 0)
      hit == {i \in DOMAIN msgs : /\ msgs[i].used
                             /\ msgs[i].sw = largest
                             /\ SEQ_VAL_IS_EQ(msgs[i].seq_val, wins[largest].lower_bound)}
  IN  IF wins[largest].count = 1 \/ hit = {}
      THEN [rv |-> NULL, windows |-> wins, buffered_msgs |-> msgs]
      ELSE LET rv == Max(hit)
               msgs1 == [msgs EXCEPT ![rv] = MCAST_PACKET_FREE(@)]
               wins1 == [wins EXCEPT ![largest].count = U8(@ - 1)]
           IN  [rv |-> rv, windows |-> window_update_bounds(wins1, msgs1),
                buffered_msgs |-> msgs1]

(***************************************************************************)
(* roll_trickle_accept                                                     *)
(*   s: the node's statics; in: ROLL_TRICKLE_DGRAM_IN or _OUT; dg: the     *)
(*   datagram in uip_buf; clk: clock_time(); rnd: random_rand() of the     *)
(*   timer reset; trap: whether a write through NULL traps on this build.  *)
(* The result holds the statics afterwards, the return value rv (NULL      *)
(* when the call trapped), the statistics counted, the path taken and the  *)
(* packet buffer_reclaim evicted.                                          *)
(***************************************************************************)
NoEvict == [slot |-> NULL, seq_val |-> 0, sw |-> NULL]

accept_drop(s, wins, stats, path) ==
  [windows |-> wins, buffered_msgs |-> s.buffered_msgs, t |-> s.t,
   rv |-> 0, trapped |-> FALSE, stats |-> stats, path |-> path,
   evicted |-> NoEvict, resets |-> {}]

\* lines 1013-1040: the window takes the datagram
accept_window(w, dg) ==
  [w EXCEPT !.m = dg.m,
            !.used = TRUE,
            !.seed_id = dg.seed,
            !.lower_bound = IF w.count = 0 THEN dg.seq ELSE @,
            !.upper_bound = IF w.count = 0 \/ SEQ_VAL_IS_GT(dg.seq, w.upper_bound)
                            THEN dg.seq ELSE @,
            !.count = U8(@ + 1)]

\* lines 1042-1057: the packet slot takes the datagram
accept_packet(sw, in, dg) ==
  [ZeroPacket EXCEPT !.buff = IF in = ROLL_TRICKLE_DGRAM_IN
                              THEN [dg EXCEPT !.ttl = U8(@ - 1)] ELSE dg,
                     !.sw = sw,
                     !.seq_val = dg.seq,
                     !.used = TRUE,
                     !.must_send = (in = ROLL_TRICKLE_DGRAM_IN)]

\* lines 1065-1068
accept_reset(tt, m, clk, rnd) ==
  reset_trickle_timer([tt EXCEPT ![m].inconsistency = 1], m, clk, rnd)

\* a variant that drops nothing as too old
accept_too_old_never(wins, sw, dg) == FALSE

\* a variant that knows a datagram again only by the window's upper bound
accept_seen_upper_only(wins, msgs, sw, dg) ==
  sw # NULL /\ wins[sw].count > 1 /\ SEQ_VAL_IS_EQ(dg.seq, wins[sw].upper_bound)

\* lines 953-972: the datagram is older than the window or already buffered
accept_too_old(wins, sw, dg) ==
  sw # NULL /\ SEQ_VAL_IS_LT(dg.seq, wins[sw].lower_bound)

accept_seen(wins, msgs, sw, dg) ==
  /\ sw # NULL
  /\ \E i \in DOMAIN msgs : /\ msgs[i].used
                            /\ msgs[i].sw = sw
                            /\ SLIDING_WINDOW_GET_M(wins[msgs[i].sw]) = dg.m
                            /\ SEQ_VAL_IS_EQ(dg.seq, msgs[i].seq_val)

roll_trickle_accept(s, in, dg, clk, rnd, trap) ==
  LET in_all == IF in = ROLL_TRICKLE_DGRAM_IN THEN {"mcast_in_all"} ELSE {}
      in_unique == IF in = ROLL_TRICKLE_DGRAM_IN THEN {"mcast_in_unique"} ELSE {}
      sw0 == window_lookup(s.windows, dg.seed, dg.m)
      wins1 == IF sw0 = NULL THEN window_allocate(s.windows) ELSE s.windows
      sw1 == IF sw0 = NULL THEN window_allocate_slot(s.windows) ELSE sw0
      mp0 == buffer_allocate(s.buffered_msgs)
      rec == IF mp0 = NULL THEN buffer_reclaim(wins1, s.buffered_msgs)
             ELSE [rv |-> mp0, windows |-> wins1, buffered_msgs |-> s.buffered_msgs]
      mp == rec.rv
      ev == IF mp0 = NULL /\ mp # NULL
            THEN [slot |-> mp, seq_val |-> s.buffered_msgs[mp].seq_val,
                  sw |-> s.buffered_msgs[mp].sw]
            ELSE NoEvict
      wins3 == [rec.windows EXCEPT ![sw1] = accept_window(@, dg)]
  IN
  IF ~dg.ok THEN accept_drop(s, s.windows, {"mcast_bad"}, "bad")
  ELSE IF accept_too_old(s.windows, sw0, dg)
  THEN accept_drop(s, s.windows, in_all \cup {"mcast_dropped"}, "too_old")
  ELSE IF accept_seen(s.windows, s.buffered_msgs, sw0, dg)
  THEN accept_drop(s, s.windows, in_all \cup {"mcast_dropped"}, "seen")
  ELSE IF sw1 = NULL
  THEN accept_drop(s, s.windows, in_all \cup {"mcast_dropped"}, "no_window")
  ELSE IF mp = NULL /\ rec.windows[sw1].count = 0
  THEN accept_drop(s, [rec.windows EXCEPT ![sw1] = window_free(@)],
                   in_all \cup {"mcast_dropped"}, "no_buffer")
  ELSE IF mp = NULL
  THEN \* memset(locmpptr, ...) with locmpptr == NULL: the window has been
       \* updated; the writes to the packet trap or land outside the statics
       [windows |-> wins3, buffered_msgs |-> rec.buffered_msgs,
        t |-> IF trap THEN s.t ELSE accept_reset(s.t, dg.m, clk, rnd),
        rv |-> IF trap THEN NULL ELSE 1, trapped |-> trap,
        stats |-> in_all \cup in_unique, path |-> "null_write",
        evicted |-> NoEvict, resets |-> IF trap THEN {} ELSE {dg.m}]
  ELSE [windows |-> wins3,
        buffered_msgs |-> [rec.buffered_msgs EXCEPT ![mp] = accept_packet(sw1, in, dg)],
        t |-> accept_reset(s.t, dg.m, clk, rnd),
        rv |-> 1, trapped |-> FALSE,
        stats |-> in_all \cup in_unique, path |-> "admitted",
        evicted |-> ev, resets |-> {dg.m}]

(***************************************************************************)
(* roll_trickle_icmp_input                                                 *)
(*   msg.ok: the source, destination, code and hop limit checks pass;      *)
(*   msg.recs: the sequence lists of the payload, each with res (reserved  *)
(*   bits set), s_ok (S bit agrees with the build), seed_id, m and seqs.   *)
(***************************************************************************)
\* lines 1185-1231: one advertised value against window sw
\* st = [windows, buffered_msgs, incons]
icmp_value(st, sw, val) ==
  LET w == st.windows[sw]
      newer == SEQ_VAL_IS_GT(val, w.upper_bound)
      within == /\ (SEQ_VAL_IS_LT(val, w.upper_bound) \/ SEQ_VAL_IS_EQ(val, w.upper_bound))
                /\ (SEQ_VAL_IS_GT(val, w.lower_bound) \/ SEQ_VAL_IS_EQ(val, w.lower_bound))
      hit == {i \in DOMAIN st.buffered_msgs :
                /\ st.buffered_msgs[i].used
                /\ st.buffered_msgs[i].sw = sw
                /\ SEQ_VAL_IS_EQ(st.buffered_msgs[i].seq_val, val)}
      found == within /\ hit # {}
      ml == IF found /\ (w.min_listed = -1 \/ SEQ_VAL_IS_LT(val, w.min_listed))
            THEN val ELSE w.min_listed
  IN  [windows |-> [st.windows EXCEPT ![sw].min_listed = ml],
       buffered_msgs |-> IF found
                         THEN [st.buffered_msgs EXCEPT ![Max(hit)].listed = TRUE]
                         ELSE st.buffered_msgs,
       incons |-> st.incons \/ newer \/ (within /\ hit = {})]

RECURSIVE icmp_values(_, _, _, _)
icmp_values(st, sw, seqs, j) ==
  IF j > Len(seqs) THEN st
  ELSE icmp_values(icmp_value(st, sw, seqs[j]), sw, seqs, j + 1)

\* lines 1170-1241: one sequence list; ps = [windows, buffered_msgs, t, loctpptr]
icmp_record(ps, rec) ==
  LET sw == window_lookup(ps.windows, rec.seed_id, rec.m)
      st0 == [windows |-> [ps.windows EXCEPT ![sw] =
                             [@ EXCEPT !.listed = TRUE, !.min_listed = -1]],
              buffered_msgs |-> ps.buffered_msgs,
              incons |-> FALSE]
      st1 == icmp_values(st0, sw, rec.seqs, 1)
  IN  IF sw # NULL
      THEN [windows |-> st1.windows, buffered_msgs |-> st1.buffered_msgs,
            t |-> IF st1.incons THEN [ps.t EXCEPT ![rec.m].inconsistency = 1]
                  ELSE ps.t,
            loctpptr |-> rec.m]
      ELSE [windows |-> ps.windows, buffered_msgs |-> ps.buffered_msgs,
            t |-> [ps.t EXCEPT ![rec.m].inconsistency = 1],
            loctpptr |-> rec.m]

\* lines 1137-1242: the parse loop; dropped: a record sent it to the drop label
RECURSIVE icmp_parse(_, _, _)
icmp_parse(ps, recs, j) ==
  IF j > Len(recs) THEN ps
  ELSE IF recs[j].res
       THEN [ps EXCEPT !.dropped = TRUE]
       ELSE IF ~recs[j].s_ok
       THEN [ps EXCEPT !.dropped = TRUE, !.stats = @ \cup {"icmp_bad"}]
       ELSE LET r == icmp_record(ps, recs[j])
            IN  icmp_parse([ps EXCEPT !.windows = r.windows,
                                      !.buffered_msgs = r.buffered_msgs,
                                      !.t = r.t,
                                      !.loctpptr = r.loctpptr],
                           recs, j + 1)

\* lines 1245-1275: the buffered packets the message shows the sender misses
icmp_we_have_new(wins, p) ==
  /\ p.used
  /\ \/ ~wins[p.sw].listed
     \/ /\ ~p.listed
        /\ wins[p.sw].min_listed >= 0
        /\ SEQ_VAL_IS_GT(p.seq_val, wins[p.sw].min_listed)

\* the timer the check for "we have new" flags
icmp_flagged_timer(ps, p) == ps.loctpptr

icmp_check_buffer(ps) ==
  LET new == {i \in DOMAIN ps.buffered_msgs :
                icmp_we_have_new(ps.windows, ps.buffered_msgs[i])}
      flagged == {icmp_flagged_timer(ps, ps.buffered_msgs[i]) : i \in new}
  IN  [ps EXCEPT !.buffered_msgs =
                    [i \in DOMAIN @ |-> IF i \in new THEN [@[i] EXCEPT !.must_send = TRUE]
                                        ELSE @[i]],
                 !.t = [m \in 0..1 |-> IF m \in flagged
                                       THEN [@[m] EXCEPT !.inconsistency = 1]
                                       ELSE @[m]],
                 !.null_write = (new # {} /\ ps.loctpptr = NULL)]

\* a variant that counts the message in both controllers and resets neither
icmp_counters_count_only(tt, clks, rnd0, rnd1) ==
  [m \in 0..1 |-> [tt[m] EXCEPT !.c = U8(@ + 1)]]

\* lines 1277-1290.  clks: what clock_time() returns at its reads, one in
\* each reset_trickle_timer that is called (line 663); rnd0, rnd1: what
\* random_rand() returns in the reset of timer 0, of timer 1
icmp_counters(tt, clks, rnd0, rnd1) ==
  LET t0 == IF tt[0].inconsistency # 0
            THEN reset_trickle_timer(tt, 0, clks[1], rnd0)
            ELSE [tt EXCEPT ![0].c = U8(@ + 1)]
  IN  IF t0[1].inconsistency # 0
      THEN reset_trickle_timer(t0, 1,
                               clks[IF tt[0].inconsistency # 0 THEN 2 ELSE 1],
                               rnd1)
      ELSE [t0 EXCEPT ![1].c = U8(@ + 1)]

\* the statics after the listed bits are cleared and the payload is parsed
icmp_parsed(s, msg) ==
  icmp_parse([windows |-> [i \in DOMAIN s.windows |->
                             [s.windows[i] EXCEPT !.listed = FALSE]],
              buffered_msgs |-> [i \in DOMAIN s.buffered_msgs |->
                                   [s.buffered_msgs[i] EXCEPT !.listed = FALSE]],
              t |-> s.t, loctpptr |-> s.loctpptr,
              dropped |-> FALSE, stats |-> {"icmp_in"}, null_write |-> FALSE],
             msg.recs, 1)

\* the statics after step 3, which a message sent to the drop label skips
icmp_checked(ps) == IF ps.dropped THEN ps ELSE icmp_check_buffer(ps)

\* ps: the statics after the parse loop; cs: after step 3
icmp_input_end(s, msg, ps, cs, clks, rnd0, rnd1, trap) ==
  IF ~msg.ok
  THEN [windows |-> s.windows, buffered_msgs |-> s.buffered_msgs, t |-> s.t,
        loctpptr |-> s.loctpptr, trapped |-> FALSE, stats |-> {"icmp_bad"},
        path |-> "bad", resets |-> {}]
  ELSE IF cs.null_write /\ trap
  THEN \* loctpptr->inconsistency = 1 with loctpptr == NULL traps at the
       \* first such packet, before any must-send bit is set
       [windows |-> ps.windows, buffered_msgs |-> ps.buffered_msgs, t |-> ps.t,
        loctpptr |-> ps.loctpptr, trapped |-> TRUE, stats |-> ps.stats,
        path |-> "null_write", resets |-> {}]
  ELSE [windows |-> cs.windows, buffered_msgs |-> cs.buffered_msgs,
        t |-> icmp_counters(cs.t, clks, rnd0, rnd1),
        loctpptr |-> cs.loctpptr, trapped |-> FALSE, stats |-> cs.stats,
        path |-> IF cs.dropped THEN "drop"
                 ELSE IF cs.null_write THEN "null_write" ELSE "parsed",
        resets |-> {m \in 0..1 : cs.t[m].inconsistency # 0}]

icmp_input_step3(s, msg, ps, clks, rnd0, rnd1, trap) ==
  icmp_input_end(s, msg, ps, icmp_checked(ps), clks, rnd0, rnd1, trap)

\* clks: what clock_time() returns at the reads of the call
roll_trickle_icmp_input(s, msg, clks, rnd0, rnd1, trap) ==
  icmp_input_step3(s, msg, icmp_parsed(s, msg), clks, rnd0, rnd1, trap)

(***************************************************************************)
(* uip_buf, the one packet buffer of the stack.  A datagram lies in it     *)
(* with its IPv6 header in bytes 0-39, its hop-by-hop header in bytes      *)
(* 40-47 and its upper layer from byte 48 on; a control message with its   *)
(* ICMPv6 header in bytes 40-43 and its payload from byte 44 on            *)
(* (UIP_ICMP_PAYLOAD with no extension header), so that byte k of the      *)
(* payload, counted from 1, is byte 43 + k of the buffer.  The bytes 48 on *)
(* are followed, as 16-bit words in network byte order: the upper layer of *)
(* a datagram, the payload of a control message past its first four       *)
(* bytes.  A packet that comes to lie in the buffer overwrites as many     *)
(* bytes as it is long and leaves the others as they were.                 *)
(***************************************************************************)
\* a bound: the words of uip_buf that are followed
UipWords == 8

\* uip_buf at start, a zeroed static array
uip_buf_init == [j \in 1 .. UipWords |-> 0]

\* the buffer buf after a packet whose bytes from 48 on are words has come to
\* lie in it
uip_buf_load(buf, words) ==
  [j \in 1 .. Len(buf) |-> IF j <= Len(words) THEN words[j] ELSE buf[j]]

\* UIP_ICMP_PAYLOAD[k - 1] for k > 4: the byte of buf that byte k of a payload
\* lies in
uip_buf_byte(buf, k) ==
  LET j == (k - SEQUENCE_LIST_HEADER_LEN + 1) \div 2
      v == IF j <= Len(buf) THEN buf[j] ELSE 0
  IN  IF (k - SEQUENCE_LIST_HEADER_LEN) % 2 = 1 THEN (v \div 256) % 256
      ELSE v % 256

\* the words a payload of these bytes puts in the bytes 48 on
payload_words(bytes) ==
  [j \in 1 .. (IF Len(bytes) > SEQUENCE_LIST_HEADER_LEN
               THEN (Len(bytes) - SEQUENCE_LIST_HEADER_LEN) \div 2 ELSE 0) |->
     bytes[SEQUENCE_LIST_HEADER_LEN + 2 * j - 1] * 256
       + bytes[SEQUENCE_LIST_HEADER_LEN + 2 * j]]

(***************************************************************************)
(* icmp_output: one sequence list per used window with count > 0, the      *)
(* windows and the packets scanned from the last slot down.  The header    *)
(* of a list carries seq_len = the window's count; the values written      *)
(* after it are those of the attached packets, and the next header starts  *)
(* right after the last value written.  The payload is as long as the      *)
(* headers and the counts say: when a count is larger than the number of   *)
(* attached packets the payload ends in bytes of uip_buf that icmp_output  *)
(* did not write, those of the packet that lay in the buffer before; when  *)
(* it is smaller the payload ends before the last bytes written.           *)
(***************************************************************************)
\* (uint8_t)(v >> 8), (uint8_t)(v & 0xFF)
Bytes16(v) == <<(v \div 256) % 256, v % 256>>

\* lines 829-840: the values written for window sw
RECURSIVE icmp_output_seqs(_, _, _)
icmp_output_seqs(msgs, sw, i) ==
  IF i < 0 THEN <<>>
  ELSE IF msgs[i].used /\ msgs[i].sw = sw
       THEN <<msgs[i].seq_val>> \o icmp_output_seqs(msgs, sw, i - 1)
       ELSE icmp_output_seqs(msgs, sw, i - 1)

\* lines 812-820: the header of the list of window w (short seed ids, the id
\* big endian)
icmp_output_header(w) ==
  <<SEQUENCE_LIST_S_BIT
      + (IF SLIDING_WINDOW_GET_M(w) # 0 THEN SEQUENCE_LIST_M_BIT ELSE 0),
    w.count>> \o Bytes16(w.seed_id)

RECURSIVE icmp_output_values(_, _)
icmp_output_values(seqs, j) ==
  IF j > Len(seqs) THEN <<>>
  ELSE Bytes16(seqs[j]) \o icmp_output_values(seqs, j + 1)

\* lines 809-844: the bytes written, windows i down to 0
RECURSIVE icmp_output_written(_, _, _)
icmp_output_written(wins, msgs, i) ==
  IF i < 0 THEN <<>>
  ELSE IF wins[i].used /\ wins[i].count > 0
       THEN icmp_output_header(wins[i])
            \o icmp_output_values(icmp_output_seqs(msgs, i, Max(DOMAIN msgs)), 1)
            \o icmp_output_written(wins, msgs, i - 1)
       ELSE icmp_output_written(wins, msgs, i - 1)

\* lines 827, 841: payload_len, windows i down to 0
RECURSIVE icmp_output_payload_len(_, _)
icmp_output_payload_len(wins, i) ==
  IF i < 0 THEN 0
  ELSE IF wins[i].used /\ wins[i].count > 0
       THEN (SEQUENCE_LIST_HEADER_LEN + wins[i].count * 2
               + icmp_output_payload_len(wins, i - 1)) % 65536
       ELSE icmp_output_payload_len(wins, i - 1)

\* the buffer buf after icmp_output has written its bytes from
\* UIP_ICMP_PAYLOAD on
icmp_output_buf(wins, msgs, buf) ==
  uip_buf_load(buf, payload_words(icmp_output_written(wins, msgs,
                                                      Max(DOMAIN wins))))

\* the len bytes that leave the node, of which icmp_output wrote these
icmp_output_bytes(buf, written, len) ==
  [k \in 1 .. len |-> IF k <= Len(written) THEN written[k]
                      ELSE uip_buf_byte(buf, k)]

\* the payload_len bytes that leave the node
icmp_output_payload(wins, msgs, buf) ==
  icmp_output_bytes(buf, icmp_output_written(wins, msgs, Max(DOMAIN wins)),
                    icmp_output_payload_len(wins, Max(DOMAIN wins)))

\* byte k of a payload of these bytes that lies in buf: past its end, what
\* the buffer holds
payload_byte(bytes, buf, k) ==
  IF k <= Len(bytes) THEN bytes[k] ELSE uip_buf_byte(buf, k)

\* lines 1165-1168, 1187: the n values (uip_htons of two bytes) from byte j
RECURSIVE sequence_list_values(_, _, _, _)
sequence_list_values(bytes, buf, j, n) ==
  IF n = 0 THEN <<>>
  ELSE <<payload_byte(bytes, buf, j) * 256 + payload_byte(bytes, buf, j + 1)>>
       \o sequence_list_values(bytes, buf, j + 2, n - 1)

\* lines 1137-1170, 1239-1241: the sequence lists of a payload, from the
\* header at byte j; the walk ends at a header the parse loop drops
RECURSIVE sequence_lists(_, _, _)
sequence_lists(bytes, buf, j) ==
  IF j > Len(bytes) THEN <<>>
  ELSE
    LET flags == bytes[j]
        seq_len == payload_byte(bytes, buf, j + 1)
        res == (flags % (SEQUENCE_LIST_RES + 1)) # 0
        s_ok == flags >= SEQUENCE_LIST_S_BIT
        hdr == [res |-> res, s_ok |-> s_ok,
                seed_id |-> payload_byte(bytes, buf, j + 2) * 256
                              + payload_byte(bytes, buf, j + 3),
                m |-> (flags \div SEQUENCE_LIST_M_BIT) % 2]
    IN  IF res \/ ~s_ok
        THEN <<[res |-> hdr.res, s_ok |-> hdr.s_ok, seed_id |-> hdr.seed_id,
                m |-> hdr.m, seqs |-> <<>>]>>
        ELSE <<[res |-> hdr.res, s_ok |-> hdr.s_ok, seed_id |-> hdr.seed_id,
                m |-> hdr.m,
                seqs |-> sequence_list_values(bytes, buf,
                                              j + SEQUENCE_LIST_HEADER_LEN,
                                              seq_len)]>>
             \o sequence_lists(bytes, buf,
                               j + SEQUENCE_LIST_HEADER_LEN + 2 * seq_len)

\* a control message of this payload as the node in whose uip_buf it has come
\* to lie reads it: buf is the buffer before
icmp_received(bytes, buf) ==
  [ok |-> TRUE, payload |-> bytes,
   recs |-> sequence_lists(bytes, uip_buf_load(buf, payload_words(bytes)), 1)]

\* the message icmp_output sends, as a node with the buffer of the sender
\* reads it
icmp_output(wins, msgs, buf) ==
  [kind |-> "icmp",
   msg |-> icmp_received(icmp_output_payload(wins, msgs, buf),
                         icmp_output_buf(wins, msgs, buf))]

(***************************************************************************)
(* handle_timer: the periodic pass of timer m                              *)
(***************************************************************************)
\* lines 588-594
handle_timer_age(p, diff_last, diff_start) ==
  IF p.active = 0
  THEN [p EXCEPT !.active = @ + diff_start, !.dwell = @ + diff_start]
  ELSE [p EXCEPT !.active = @ + diff_last, !.dwell = @ + diff_last]

\* line 599
handle_timer_expired(p, param) == p.dwell > TRICKLE_DWELL(param)

\* a variant that does not look at the hop limit
handle_timer_must_forward_any_ttl(p, param) ==
  \/ (SUPPRESSION_ENABLED(param) /\ p.must_send)
  \/ (SUPPRESSION_DISABLED(param) /\ p.active < TRICKLE_ACTIVE(param))

\* lines 611-615
handle_timer_must_forward(p, param) ==
  /\ MCAST_PACKET_TTL(p) > 0
  /\ \/ (SUPPRESSION_ENABLED(param) /\ p.must_send)
     \/ (SUPPRESSION_DISABLED(param) /\ p.active < TRICKLE_ACTIVE(param))

\* lines 569-629; fs = [windows, buffered_msgs, uip_buf, sent, fwd]: a packet
\* that is sent is copied to uip_buf first (line 620)
RECURSIVE handle_timer_packets(_, _, _, _, _, _)
handle_timer_packets(fs, m, param, diff_last, diff_start, i) ==
  IF i < 0 THEN fs
  ELSE
    LET p0 == fs.buffered_msgs[i]
        p == handle_timer_age(p0, diff_last, diff_start)
        sw == p0.sw
        cnt == U8(fs.windows[sw].count - 1)
    IN  IF ~(p0.used /\ SLIDING_WINDOW_GET_M(fs.windows[sw]) = m)
        THEN handle_timer_packets(fs, m, param, diff_last, diff_start, i - 1)
        ELSE IF handle_timer_expired(p, param)
        THEN handle_timer_packets(
               [fs EXCEPT !.windows[sw] =
                              IF cnt = 0 THEN window_free([@ EXCEPT !.count = cnt])
                              ELSE [@ EXCEPT !.count = cnt],
                          !.buffered_msgs[i] = MCAST_PACKET_FREE(p)],
               m, param, diff_last, diff_start, i - 1)
        ELSE IF handle_timer_must_forward(p, param)
        THEN handle_timer_packets(
               [fs EXCEPT !.buffered_msgs[i] = [p EXCEPT !.must_send = FALSE],
                          !.uip_buf = uip_buf_load(@, p.buff.upper),
                          !.sent = Append(@, [kind |-> "dgram", dg |-> p.buff]),
                          !.fwd = @ + 1],
               m, param, diff_last, diff_start, i - 1)
        ELSE handle_timer_packets([fs EXCEPT !.buffered_msgs[i] = p],
                                  m, param, diff_last, diff_start, i - 1)

\* a variant that leaves out the test for suppression
handle_timer_sends_icmp_unguarded(param) == param.c < param.k

\* lines 631-636
handle_timer_sends_icmp(param) ==
  SUPPRESSION_ENABLED(param) /\ param.c < param.k

\* lines 644-651; clk: clock_time() of line 645
handle_timer_next(param, clk) ==
  IF clk >= param.t_end THEN 0 ELSE Clk(param.t_end - clk)

\* lines 561-629: the packets of timer m aged, freed or sent at clock time clk
handle_timer_forward(s, m, clk) ==
  LET param == s.t[m]
      diff_last == Clk(clk - param.t_last_trigger)
      diff_start == Clk(clk - param.t_start)
  IN  handle_timer_packets(
        [windows |-> s.windows, buffered_msgs |-> s.buffered_msgs,
         uip_buf |-> s.uip_buf, sent |-> <<>>, fwd |-> 0],
        m, param, diff_last, diff_start, Max(DOMAIN s.buffered_msgs))

\* a variant that does not wait for a preferred link-local address
handle_timer_ignores_ready(s, m, clk, clk2, rdy, rnd) ==
  LET param == s.t[m]
      fs == handle_timer_forward(s, m, clk)
      icmp == handle_timer_sends_icmp(param)
      next == handle_timer_next(param, clk2)
  IN
  IF FALSE
  THEN [windows |-> s.windows, buffered_msgs |-> s.buffered_msgs,
        t |-> reset_trickle_timer(s.t, m, clk, rnd), uip_buf |-> s.uip_buf,
        sent |-> <<>>, stats |-> {}, path |-> "not_ready", resets |-> {m}]
  ELSE [windows |-> window_update_bounds(fs.windows, fs.buffered_msgs),
        buffered_msgs |-> fs.buffered_msgs,
        t |-> [s.t EXCEPT ![m] =
                 [@ EXCEPT !.t_last_trigger = clk,
                           !.inconsistency = 0,
                           !.c = 0,
                           !.t_next = next,
                           !.ct = ctimer_set(clk2, next, "double_interval")]],
        uip_buf |-> IF icmp
                    THEN icmp_output_buf(fs.windows, fs.buffered_msgs, fs.uip_buf)
                    ELSE fs.uip_buf,
        sent |-> IF icmp
                 THEN Append(fs.sent,
                             icmp_output(fs.windows, fs.buffered_msgs, fs.uip_buf))
                 ELSE fs.sent,
        stats |-> (IF fs.fwd > 0 THEN {"mcast_fwd"} ELSE {})
                  \cup (IF icmp THEN {"icmp_out"} ELSE {}),
        path |-> "pass", resets |-> {}]

\* rdy: the stack has a preferred link-local address; clk: clock_time() of
\* line 561, from which the packets age; clk2: clock_time() of line 645, after
\* the packets and the control message were sent, from which the end of the
\* interval is scheduled
handle_timer(s, m, clk, clk2, rdy, rnd) ==
  LET param == s.t[m]
      fs == handle_timer_forward(s, m, clk)
      icmp == handle_timer_sends_icmp(param)
      next == handle_timer_next(param, clk2)
  IN
  IF ~rdy
  THEN [windows |-> s.windows, buffered_msgs |-> s.buffered_msgs,
        t |-> reset_trickle_timer(s.t, m, clk, rnd), uip_buf |-> s.uip_buf,
        sent |-> <<>>, stats |-> {}, path |-> "not_ready", resets |-> {m}]
  ELSE [windows |-> window_update_bounds(fs.windows, fs.buffered_msgs),
        buffered_msgs |-> fs.buffered_msgs,
        t |-> [s.t EXCEPT ![m] =
                 [@ EXCEPT !.t_last_trigger = clk,
                           !.inconsistency = 0,
                           !.c = 0,
                           !.t_next = next,
                           !.ct = ctimer_set(clk2, next, "double_interval")]],
        uip_buf |-> IF icmp
                    THEN icmp_output_buf(fs.windows, fs.buffered_msgs, fs.uip_buf)
                    ELSE fs.uip_buf,
        sent |-> IF icmp
                 THEN Append(fs.sent,
                             icmp_output(fs.windows, fs.buffered_msgs, fs.uip_buf))
                 ELSE fs.sent,
        stats |-> (IF fs.fwd > 0 THEN {"mcast_fwd"} ELSE {})
                  \cup (IF icmp THEN {"icmp_out"} ELSE {}),
        path |-> "pass", resets |-> {}]

(***************************************************************************)
(* roll_trickle_out: tag the datagram of the upper layer (hop limit ttl,   *)
(* seed id self) with the next sequence value and queue it.  too_long:     *)
(* uip_len + HBHO_TOTAL_LEN > UIP_BUFSIZE.  upper: the 16-bit words the    *)
(* upper layer wrote after the IPv6 header, from byte 40 on; the hop-by-   *)
(* hop header moves them to byte 48 (lines 1302-1303).                     *)
(***************************************************************************)
\* lines 1351-1354: a is what roll_trickle_accept(ROLL_TRICKLE_DGRAM_OUT) of
\* the tagged datagram dg did
out_queued(seq, dg, a, buf) ==
  [windows |-> a.windows, buffered_msgs |-> a.buffered_msgs, t |-> a.t,
   uip_buf |-> buf, last_seq |-> seq, tagged |-> dg, rv |-> a.rv, trapped |-> a.trapped,
   sent |-> IF a.rv = 1 THEN <<[kind |-> "dgram", dg |-> dg]>> ELSE <<>>,
   stats |-> a.stats \cup (IF a.rv = 1 THEN {"mcast_out"} ELSE {}),
   path |-> a.path, evicted |-> a.evicted, resets |-> a.resets]

\* lines 1309-1354: the datagram dg carries the new sequence value seq
out_tagged(s, seq, dg, clk, rnd, trap) ==
  out_queued(seq, dg,
             roll_trickle_accept(s, ROLL_TRICKLE_DGRAM_OUT, dg, clk, rnd, trap),
             uip_buf_load(s.uip_buf, dg.upper))

\* ok: the addresses the upper layer wrote pass the checks of
\* roll_trickle_accept (lines 881-896: a routable destination, a source that
\* is not the unspecified address)
roll_trickle_out(s, self, ttl, ok, too_long, upper, clk, rnd, trap) ==
  IF too_long
  THEN [windows |-> s.windows, buffered_msgs |-> s.buffered_msgs, t |-> s.t,
        uip_buf |-> uip_buf_load(s.uip_buf, SubSeq(upper, 5, Len(upper))),
        last_seq |-> s.last_seq, tagged |-> NULL, rv |-> 0, trapped |-> FALSE,
        sent |-> <<>>,
        stats |-> {}, path |-> "too_long", evicted |-> NoEvict, resets |-> {}]
  ELSE out_tagged(s, SEQ_VAL_ADD(s.last_seq, 1),
                  [ok |-> ok, seed |-> self, m |-> ROLL_TRICKLE_SET_M_BIT,
                   seq |-> SEQ_VAL_ADD(s.last_seq, 1), ttl |-> ttl,
                   upper |-> upper],
                  clk, rnd, trap)

\* roll_trickle_init of a build with tables of wins windows and buff packets.
\* clks: what clock_time() returns at the four reads of the call, in
\* TIMER_CONFIGURE(0), reset_trickle_timer(0), TIMER_CONFIGURE(1) and
\* reset_trickle_timer(1); rnd0, rnd1: the two random_rand() calls
roll_trickle_init(wins, buff, clks, rnd0, rnd1) ==
  LET t0 == [m \in 0..1 |-> TIMER_CONFIGURE(m, clks[2 * m + 1])]
  IN  [windows |-> [i \in Slots(wins) |-> ZeroWindow],
       buffered_msgs |-> [i \in Slots(buff) |-> ZeroPacket],
       t |-> reset_trickle_timer(reset_trickle_timer(t0, 0, clks[2], rnd0),
                                 1, clks[4], rnd1)]

(***************************************************************************)
(* The state machine                                                       *)
(***************************************************************************)
\* bounds of the model
MaxClock == 12
DwellClock == 9
DataClock == 4
\* the ticks a due callback is kept waiting, at most
MaxLag == 1
\* the clock advances while a callback is due, or during a pass, only while
\* the up-calls and such ticks so far are fewer than MaxLate
MaxLate == 3
MaxRand == 2
MaxOut == 1
MaxCalls == 3
MaxDataCalls == 5
MaxSeqCalls == 4
MaxReadmitCalls == 4
MaxResets == 1
BootClock == 65530
LateTicks == 14
MinImin == 3
MaxImin == 8
MaxDoublings == 2
MaxEntryRand == 15
\* the ticks the clock advances during a call (between the first and the
\* last clock_time() of a handle_timer pass, of a roll_trickle_icmp_input
\* call that resets both timers, of roll_trickle_init), at most
MaxPassTicks == 1
SeqSpread == 3
NetClock == 3
OutBy == 1

Nodes == {"S", "A", "B"}
RandVals == 0 .. MaxRand
\* one value of random_rand() for every delay random_interval can return
Draws(i_min, d) ==
  {CHOOSE r \in RandVals : random_interval(i_min, d, r) = v :
     v \in {random_interval(i_min, d, r) : r \in RandVals}}
ResetDraws(n, m) == Draws(t[n][m].i_min, 0)
\* the outcomes of a write through NULL: it traps, or it lands outside the statics
Traps(path) == IF path = "null_write" THEN {FALSE, TRUE} ELSE {FALSE}
\* the upper layer of the datagrams of the model: a UDP header (ports 3000
\* and 4660, length 12, no checksum) and the four bytes "data"
UdpData == <<3000, 4660, 12, 0, 25697, 29793>>
\* what the upper layer of a node writes after the IPv6 header: a datagram
\* that is too long to tag fills the buffer
UpperLayer(too_long) ==
  IF too_long THEN [j \in 1 .. UipWords + 4 |-> 29793] ELSE UdpData
\* the seed id a node tags its own datagrams with
SelfSeed(n) == IF n = "S" THEN 1 ELSE IF n = "A" THEN 2 ELSE 3

\* the statics of node n
St(n) ==
  [windows |-> windows[n], buffered_msgs |-> buffered_msgs[n], t |-> t[n],
   loctpptr |-> loctpptr[n], uip_buf |-> uip_buf[n], last_seq |-> last_seq[n]]

NoCall ==
  [node |-> "", op |-> "init", arg |-> NULL, m |-> NULL, rv |-> NULL, path |-> "",
   stats |-> {}, sent |-> <<>>, resets |-> {}, evicted |-> NoEvict]

\* a used window of wins is that of seed and parametrization m
WindowUsedFor(wins, seed, m) ==
  \E i \in DOMAIN wins :
    /\ wins[i].used
    /\ wins[i].seed_id = seed
    /\ SLIDING_WINDOW_GET_M(wins[i]) = m
\* the datagrams admitted so far (adm) after a call that leaves the windows
\* wins and returned rv for the datagram dg of direction in (NULL: the call
\* took no datagram)
AdmittedAfter(adm, wins, rv, in, dg) ==
  {d \in adm \cup (IF rv = 1
                    THEN {[seed |-> dg.seed, m |-> dg.m, seq |-> dg.seq,
                           h |-> dg.ttl, in |-> in]}
                    ELSE {}) :
     WindowUsedFor(wins, d.seed, d.m)}

\* what clock_time() returns at the four reads of a roll_trickle_init call
\* that starts at the clock time clk: the clock advances by at most
\* MaxPassTicks ticks during the call
InitReads(clk) ==
  {[j \in 1..4 |-> IF j < k THEN clk ELSE Clk(clk + d)] :
     k \in 2..4, d \in 0 .. MaxPassTicks}

\* every node has run roll_trickle_init of a build with tables of wins
\* windows and buff packets
\* and has tagged datagrams up to one of the sequence values seqs
InitWith(wins, buff, rdy, seqs) ==
  /\ \E r0 \in Draws(ROLL_TRICKLE_IMIN_0, 0), r1 \in Draws(ROLL_TRICKLE_IMIN_1, 0),
        clks \in InitReads(0) :
       LET i == roll_trickle_init(wins, buff, clks, r0, r1)
       IN  /\ now = clks[4]
           /\ late = clks[4] - clks[1]
           /\ windows = [n \in Nodes |-> i.windows]
           /\ buffered_msgs = [n \in Nodes |-> i.buffered_msgs]
           /\ t = [n \in Nodes |-> i.t]
  /\ loctpptr = [n \in Nodes |-> NULL]
  /\ uip_buf = [n \in Nodes |-> uip_buf_init]
  /\ \E q \in seqs : last_seq = [n \in Nodes |-> q]
  /\ crashed = [n \in Nodes |-> FALSE]
  /\ ready = [n \in Nodes |-> rdy]
  /\ inbox = [n \in Nodes |-> <<>>]
  /\ calls = 0
  /\ last = NoCall
  /\ admitted = [n \in Nodes |-> {}]

\* last_seq is 0 at start
Init == InitWith(ROLL_TRICKLE_WINS, ROLL_TRICKLE_BUFF_NUM, FALSE, {0})
\* a build with room for one packet more
InitBuff3 == InitWith(ROLL_TRICKLE_WINS, ROLL_TRICKLE_BUFF_NUM + 1, FALSE, {0})
\* every node has a preferred link-local address
InitNet == InitWith(ROLL_TRICKLE_WINS, ROLL_TRICKLE_BUFF_NUM, TRUE, {0})

\* an inbound datagram, read into uip_buf, reaches
\* roll_trickle_accept(ROLL_TRICKLE_DGRAM_IN)
Accept(n, dg) ==
  /\ ~crashed[n]
  /\ \E rnd \in ResetDraws(n, dg.m) :
       \E r0 \in {roll_trickle_accept(St(n), ROLL_TRICKLE_DGRAM_IN, dg, now,
                                       rnd, FALSE)} :
       \E trap \in Traps(r0.path) :
       \E r \in {IF trap
                 THEN roll_trickle_accept(St(n), ROLL_TRICKLE_DGRAM_IN, dg, now,
                                          rnd, TRUE)
                 ELSE r0} :
           /\ windows' = [windows EXCEPT ![n] = r.windows]
           /\ buffered_msgs' = [buffered_msgs EXCEPT ![n] = r.buffered_msgs]
           /\ t' = [t EXCEPT ![n] = r.t]
           /\ crashed' = [crashed EXCEPT ![n] = r.trapped]
           /\ last' = [NoCall EXCEPT !.node = n, !.op = "accept", !.arg = dg,
                                     !.m = dg.m, !.rv = r.rv,
                                     !.path = r.path, !.stats = r.stats,
                                     !.resets = r.resets, !.evicted = r.evicted]
           /\ admitted' = [admitted EXCEPT
                             ![n] = AdmittedAfter(@, r.windows, r.rv,
                                                  ROLL_TRICKLE_DGRAM_IN, dg)]
  /\ uip_buf' = [uip_buf EXCEPT ![n] = uip_buf_load(@, dg.upper)]
  /\ UNCHANGED <<loctpptr, last_seq, ready, now, late>>

\* a control message, read into uip_buf, reaches roll_trickle_icmp_input; the
\* clock advances by d ticks between the clock_time() of the reset of timer 0
\* and that of the reset of timer 1, when the call resets both
IcmpInput(n, msg, d) ==
  /\ ~crashed[n]
  /\ d = 0 \/ calls + late + d <= MaxLate
  /\ late' = late + d
  /\ now' = Clk(now + d)
  /\ \E rnd0 \in ResetDraws(n, 0), rnd1 \in ResetDraws(n, 1) :
       \E r0 \in {roll_trickle_icmp_input(St(n), msg, <<now, now'>>, rnd0,
                                           rnd1, FALSE)} :
       \E trap \in Traps(r0.path) :
       \E r \in {IF trap
                 THEN roll_trickle_icmp_input(St(n), msg, <<now, now'>>, rnd0,
                                              rnd1, TRUE)
                 ELSE r0} :
           /\ d = 0 \/ r.resets = {0, 1}
           /\ windows' = [windows EXCEPT ![n] = r.windows]
           /\ buffered_msgs' = [buffered_msgs EXCEPT ![n] = r.buffered_msgs]
           /\ t' = [t EXCEPT ![n] = r.t]
           /\ loctpptr' = [loctpptr EXCEPT ![n] = r.loctpptr]
           /\ crashed' = [crashed EXCEPT ![n] = r.trapped]
           /\ last' = [NoCall EXCEPT !.node = n, !.op = "icmp_input", !.arg = msg,
                                     !.path = r.path, !.stats = r.stats,
                                     !.resets = r.resets]
           /\ admitted' = [admitted EXCEPT
                             ![n] = AdmittedAfter(@, r.windows, 0, NULL, NULL)]
  /\ uip_buf' = [uip_buf EXCEPT ![n] = uip_buf_load(@, payload_words(msg.payload))]
  /\ UNCHANGED <<last_seq, ready>>

\* the upper layer sends a multicast datagram: roll_trickle_out (arg: the
\* datagram as tagged, NULL when it is too long to tag)
Out(n, ttl, ok, too_long) ==
  /\ ~crashed[n]
  /\ \E rnd \in ResetDraws(n, ROLL_TRICKLE_SET_M_BIT) :
       \E r0 \in {roll_trickle_out(St(n), SelfSeed(n), ttl, ok, too_long,
                                    UpperLayer(too_long), now, rnd, FALSE)} :
       \E trap \in Traps(r0.path) :
       \E r \in {IF trap
                 THEN roll_trickle_out(St(n), SelfSeed(n), ttl, ok, too_long,
                                       UpperLayer(too_long), now, rnd, TRUE)
                 ELSE r0} :
           /\ windows' = [windows EXCEPT ![n] = r.windows]
           /\ uip_buf' = [uip_buf EXCEPT ![n] = r.uip_buf]
           /\ buffered_msgs' = [buffered_msgs EXCEPT ![n] = r.buffered_msgs]
           /\ t' = [t EXCEPT ![n] = r.t]
           /\ last_seq' = [last_seq EXCEPT ![n] = r.last_seq]
           /\ crashed' = [crashed EXCEPT ![n] = r.trapped]
           /\ last' = [NoCall EXCEPT !.node = n, !.op = "out", !.arg = r.tagged,
                                     !.rv = r.rv,
                                     !.path = r.path, !.stats = r.stats,
                                     !.sent = r.sent, !.resets = r.resets,
                                     !.evicted = r.evicted]
           /\ admitted' = [admitted EXCEPT
                             ![n] = AdmittedAfter(@, r.windows, r.rv,
                                                  ROLL_TRICKLE_DGRAM_OUT, r.tagged)]
  /\ UNCHANGED <<loctpptr, ready, now, late>>

\* the ctimer of timer m calls handle_timer, when it is due or later; the
\* clock advances by d ticks between the clock_time() of line 561 and that of
\* line 645 (the pass of a node without a preferred address returns before
\* either), which delays the callbacks that are due meanwhile.  The control
\* message of the pass ends within the words of uip_buf that are followed.
HandleTimer(n, m, d) ==
  /\ ~crashed[n]
  /\ t[n][m].ct.f = "handle_timer"
  /\ ctimer_expired(t[n][m].ct, now)
  /\ d = 0 \/ ready[n]
  /\ d = 0 \/ calls + late + d <= MaxLate
  /\ late' = late + d
  /\ icmp_output_payload_len(windows[n], Max(DOMAIN windows[n]))
       <= SEQUENCE_LIST_HEADER_LEN + 2 * UipWords
  /\ now' = Clk(now + d)
  /\ \E rnd \in ResetDraws(n, m) :
       \E r \in {handle_timer(St(n), m, now, now', ready[n], rnd)} :
           /\ windows' = [windows EXCEPT ![n] = r.windows]
           /\ buffered_msgs' = [buffered_msgs EXCEPT ![n] = r.buffered_msgs]
           /\ t' = [t EXCEPT ![n] = r.t]
           /\ uip_buf' = [uip_buf EXCEPT ![n] = r.uip_buf]
           /\ last' = [NoCall EXCEPT !.node = n, !.op = "handle_timer", !.m = m,
                                     !.path = r.path, !.stats = r.stats,
                                     !.sent = r.sent, !.resets = r.resets]
           /\ admitted' = [admitted EXCEPT
                             ![n] = AdmittedAfter(@, r.windows, 0, NULL, NULL)]
  /\ UNCHANGED <<loctpptr, last_seq, crashed, ready, calls>>

\* the ctimer of timer m calls double_interval
DoubleInterval(n, m) ==
  /\ ~crashed[n]
  /\ t[n][m].ct.f = "double_interval"
  /\ ctimer_expired(t[n][m].ct, now)
  /\ \E rnd \in Draws(t[n][m].i_min,
                        IF t[n][m].i_current < t[n][m].i_max
                        THEN t[n][m].i_current + 1 ELSE t[n][m].i_current) :
       t' = [t EXCEPT ![n][m] = double_interval(@, now, rnd)]
  /\ last' = [NoCall EXCEPT !.node = n, !.op = "double_interval", !.m = m]
  /\ UNCHANGED <<admitted, uip_buf, late,
                 windows, buffered_msgs, loctpptr, last_seq, crashed, ready,
                 now, inbox, calls>>

\* the link-local address of the node becomes preferred
AddrPreferred(n) ==
  /\ ~ready[n]
  /\ ready' = [ready EXCEPT ![n] = TRUE]
  /\ UNCHANGED <<admitted, uip_buf, late,
                 windows, buffered_msgs, t, loctpptr, last_seq, crashed, now,
                 inbox, calls, last>>

\* a callback of a running node in ns is due
DueIn(ns) ==
  \E n \in ns, m \in 0..1 : ~crashed[n] /\ ctimer_expired(t[n][m].ct, now)
\* the clock advances by a tick, to limit at most.  It may do so while a
\* callback of a running node in ns is due, which is then called late: by up
\* to MaxLag ticks, and only among the first MaxLate events of a behaviour
\* (up-calls and ticks of lateness)
Tick(ns, limit) ==
  /\ now < limit
  /\ \A n \in ns, m \in 0..1 :
       (~crashed[n] /\ ctimer_expired(t[n][m].ct, now))
         => Clk(now - t[n][m].ct.start) - t[n][m].ct.interval < MaxLag
  /\ DueIn(ns) => calls + late < MaxLate
  /\ now' = now + 1
  /\ late' = IF DueIn(ns) THEN late + 1 ELSE late
  /\ UNCHANGED <<admitted, uip_buf,
                 windows, buffered_msgs, t, loctpptr, last_seq, crashed, ready,
                 inbox, calls, last>>

\* datagrams and control messages the neighbours of a node may send it
Dgram(seed, m, seq, ttl) ==
  [ok |-> TRUE, seed |-> seed, m |-> m, seq |-> seq, ttl |-> ttl,
   upper |-> UdpData]
BadDgram == [Dgram(1, 0, 5, 2) EXCEPT !.ok = FALSE]
Record(seed, m, seqs) ==
  [res |-> FALSE, s_ok |-> TRUE, seed_id |-> seed, m |-> m, seqs |-> seqs]
\* the bytes of the sequence lists recs from the j-th on: of each its header
\* (the S bit unless s_ok is FALSE, the M bit, a reserved bit when res is
\* TRUE; the number of values; the seed id) and its values
RECURSIVE sequence_list_bytes(_, _)
sequence_list_bytes(recs, j) ==
  IF j > Len(recs) THEN <<>>
  ELSE <<(IF recs[j].s_ok THEN SEQUENCE_LIST_S_BIT ELSE 0)
           + (IF recs[j].m # 0 THEN SEQUENCE_LIST_M_BIT ELSE 0)
           + (IF recs[j].res THEN 1 ELSE 0),
         Len(recs[j].seqs)>>
       \o Bytes16(recs[j].seed_id)
       \o icmp_output_values(recs[j].seqs, 1)
       \o sequence_list_bytes(recs, j + 1)
CtrlMsg(recs) ==
  [ok |-> TRUE, recs |-> recs, payload |-> sequence_list_bytes(recs, 1)]
\* a control message that fails a header check
BadCtrlMsg == [ok |-> FALSE, recs |-> <<>>, payload |-> <<>>]

\* The datagrams and control messages of SpecData.  Seed 1 sends with M = 0 and
\* seed 3 with M = 1; 16389 = 5 + 0x4000 has no order with 5.
K1(seq) == Dgram(1, 0, seq, 2)
K2(seq) == Dgram(3, 1, seq, 2)
\* a node whose short seed id is 0 (the id memset leaves in an unused window)
K0(seq) == Dgram(0, 0, seq, 2)
Dgrams == {K1(3), K1(5), K1(6), K1(16389), K2(5), K0(16389)}
L1(seqs) == Record(1, 0, seqs)
L2(seqs) == Record(3, 1, seqs)
CtrlMsgs ==
  {CtrlMsg(<<>>), CtrlMsg(<<L1(<<5>>)>>), CtrlMsg(<<L1(<<5, 6>>)>>),
   CtrlMsg(<<L1(<<6>>)>>), CtrlMsg(<<L2(<<5>>)>>),
   CtrlMsg(<<L1(<<5>>), L2(<<>>)>>), CtrlMsg(<<L1(<<5, 6>>), L2(<<5>>)>>),
   BadCtrlMsg,
   CtrlMsg(<<L1(<<5>>), [L2(<<>>) EXCEPT !.res = TRUE]>>),
   CtrlMsg(<<[L1(<<5>>) EXCEPT !.s_ok = FALSE]>>)}

\* the datagrams and control messages of the specifications in which the
\* clock runs
TimedDgrams == {K1(5), K1(6), K2(5)}
TimedCtrlMsgs ==
  {CtrlMsg(<<>>), CtrlMsg(<<L1(<<5>>)>>), CtrlMsg(<<L1(<<5>>), L2(<<>>)>>),
   CtrlMsg(<<L1(<<5, 6>>), L2(<<5>>)>>), BadCtrlMsg}

\* one node, its neighbours and its upper layer left open: at most MaxCalls
\* datagrams, control messages, sends and ticks of lateness while the clock
\* runs to DataClock (what the node sends is not followed)
AcceptA ==
  /\ calls + late < MaxCalls
  /\ calls' = calls + 1
  /\ \E dg \in TimedDgrams \cup {BadDgram} : Accept("A", dg)
  /\ UNCHANGED inbox
IcmpInputA ==
  /\ calls + late < MaxCalls
  /\ calls' = calls + 1
  /\ \E msg \in TimedCtrlMsgs, d \in 0 .. MaxPassTicks :
       now + d <= DataClock /\ IcmpInput("A", msg, d)
  /\ UNCHANGED inbox
OutA ==
  /\ calls + late < MaxCalls
  /\ calls' = calls + 1
  /\ last_seq["A"] < MaxOut
  /\ \E ok \in BOOLEAN, too_long \in BOOLEAN : Out("A", 2, ok, too_long)
  /\ UNCHANGED inbox
\* a pass of timer m of node A during which the clock advances by at most
\* MaxPassTicks ticks, to MaxClock at most
HandleTimerOf(m) ==
  \E d \in 0 .. MaxPassTicks :
    now + d <= MaxClock /\ HandleTimer("A", m, d) /\ UNCHANGED inbox
HandleTimerA == \E m \in 0..1 : HandleTimerOf(m)
DoubleIntervalA == \E m \in 0..1 : DoubleInterval("A", m)
AddrPreferredA == AddrPreferred("A")
TickA == Tick({"A"}, DataClock)

Next ==
  \/ AcceptA
  \/ IcmpInputA
  \/ OutA
  \/ HandleTimerA
  \/ DoubleIntervalA
  \/ AddrPreferredA
  \/ TickA

Spec == Init /\ [][Next]_vars

\* the same node before any callback is due: at most MaxDataCalls datagrams,
\* control messages and sends
AcceptD ==
  /\ calls < MaxDataCalls
  /\ calls' = calls + 1
  /\ \E dg \in Dgrams \cup {BadDgram} : Accept("A", dg)
  /\ UNCHANGED inbox
IcmpInputD ==
  /\ calls < MaxDataCalls
  /\ calls' = calls + 1
  /\ \E msg \in CtrlMsgs, d \in 0 .. MaxPassTicks :
       now + d <= DataClock /\ IcmpInput("A", msg, d)
  /\ UNCHANGED inbox
OutD ==
  /\ calls < MaxDataCalls
  /\ calls' = calls + 1
  /\ last_seq["A"] < MaxOut
  /\ \E ok \in BOOLEAN, too_long \in BOOLEAN : Out("A", 2, ok, too_long)
  /\ UNCHANGED inbox

NextData ==
  \/ AcceptD
  \/ IcmpInputD
  \/ OutD

SpecData == Init /\ [][NextData]_vars
SpecDataBuff3 == InitBuff3 /\ [][NextData]_vars

\* the same node, with a preferred link-local address, and the clock running
\* to DwellClock, long enough for a packet to outlive TRICKLE_DWELL: at most
\* MaxCalls datagrams and ticks of lateness
AcceptW ==
  /\ calls + late < MaxCalls
  /\ calls' = calls + 1
  /\ \E dg \in TimedDgrams : Accept("A", dg)
  /\ UNCHANGED inbox
TickW == Tick({"A"}, DwellClock)

NextDwell ==
  \/ AcceptW
  \/ HandleTimerA
  \/ DoubleIntervalA
  \/ TickW

SpecDwell == InitNet /\ [][NextDwell]_vars

\* The upper layer sends at most MaxSeqCalls datagrams, between datagrams of
\* two other seeds, at a node that has sent none or has sent 32766 (0x7FFE)
\* of them, all expired since.
InitSeq == InitWith(ROLL_TRICKLE_WINS, ROLL_TRICKLE_BUFF_NUM, FALSE, {0, 32766})
AcceptQ ==
  /\ calls < MaxSeqCalls
  /\ calls' = calls + 1
  /\ \E dg \in {K1(5), K2(5)} : Accept("A", dg)
  /\ UNCHANGED inbox
OutQ ==
  /\ calls < MaxSeqCalls
  /\ calls' = calls + 1
  /\ \E ok \in BOOLEAN, too_long \in BOOLEAN : Out("A", 2, ok, too_long)
  /\ UNCHANGED inbox

NextSeq ==
  \/ AcceptQ
  \/ OutQ

SpecSeq == InitSeq /\ [][NextSeq]_vars

\* The line S - A - B with lossless links: what a node sends reaches each of
\* its neighbours, in order, before another callback is called.  Every
\* stack is ready; S sends its datagrams by OutBy and the clock runs to
\* NetClock, which is before the first interval of any timer ends (no
\* double_interval is due).
Neighbours(n) == IF n = "A" THEN {"S", "B"} ELSE {"A"}
\* the frames of node n on the air, after node n has taken took of its own
Broadcast(n, took, frames) ==
  [x \in Nodes |->
     IF x \in Neighbours(n) THEN inbox[x] \o frames
     ELSE IF x = n THEN SubSeq(inbox[x], took + 1, Len(inbox[x]))
     ELSE inbox[x]]

\* no frame is on the air
Quiet == \A n \in Nodes : crashed[n] \/ inbox[n] = <<>>

OutS ==
  /\ Quiet
  /\ now <= OutBy
  /\ last_seq["S"] < MaxOut
  /\ \E ok \in BOOLEAN, too_long \in BOOLEAN : Out("S", 2, ok, too_long)
  /\ inbox' = Broadcast("S", 0, last'.sent)
  /\ UNCHANGED calls
\* tcpip_input hands the next frame to roll_trickle_accept or to
\* roll_trickle_icmp_input
DeliverDgram(n) ==
  /\ inbox[n] # <<>>
  /\ Head(inbox[n]).kind = "dgram"
  /\ Accept(n, Head(inbox[n]).dg)
  /\ inbox' = [inbox EXCEPT ![n] = Tail(@)]
  /\ UNCHANGED calls
DeliverIcmp(n) ==
  /\ inbox[n] # <<>>
  /\ Head(inbox[n]).kind = "icmp"
  /\ \E d \in 0 .. MaxPassTicks :
       /\ now + d <= NetClock
       /\ IcmpInput(n, icmp_received(Head(inbox[n]).msg.payload, uip_buf[n]), d)
  /\ inbox' = [inbox EXCEPT ![n] = Tail(@)]
  /\ UNCHANGED calls
Deliver == \E n \in Nodes : DeliverDgram(n) \/ DeliverIcmp(n)
HandleTimerN ==
  /\ Quiet
  /\ \E n \in Nodes, m \in 0..1, d \in 0 .. MaxPassTicks :
       /\ now + d <= NetClock
       /\ HandleTimer(n, m, d)
       /\ inbox' = Broadcast(n, 0, last'.sent)
TickN == Quiet /\ Tick(Nodes, NetClock)

NextNet ==
  \/ OutS
  \/ Deliver
  \/ HandleTimerN
  \/ TickN

\* HandleTimerN is enabled: no frame is on the air and the handle_timer
\* callback of a running node is due
DueN ==
  /\ Quiet
  /\ \E n \in Nodes, m \in 0..1 :
       /\ ~crashed[n]
       /\ t[n][m].ct.f = "handle_timer"
       /\ ctimer_expired(t[n][m].ct, now)

\* frames are taken in (Deliver is enabled unless Quiet) and due callbacks
\* are called
FairNet ==
  /\ []<>Quiet \/ []<><<Deliver>>_vars
  /\ []<>~DueN \/ []<><<HandleTimerN>>_vars
  /\ WF_vars(TickN)

SpecNet == InitNet /\ [][NextNet]_vars /\ FairNet

(***************************************************************************)
(* Properties                                                              *)
(***************************************************************************)
\* a step that is a call of op on node A
Called(op) == calls' = calls + 1 /\ last'.op = op /\ last'.node = "A"
\* the controllers in which roll_trickle_icmp_input of msg writes
\* inconsistency = 1 (lines 1193, 1228, 1238, 1260, 1270); a message that
\* fails a header check returns before any of them (lines 1082-1110)
icmp_sets_inconsistency(s, msg) ==
  LET z == [s EXCEPT !.t = [m \in 0..1 |-> [s.t[m] EXCEPT !.inconsistency = 0]]]
      cs == icmp_checked(icmp_parsed(z, msg))
  IN  IF ~msg.ok THEN {} ELSE {m \in 0..1 : cs.t[m].inconsistency # 0}

\* C1: in every reachable state every used buffered packet p attached to a
\* window w has neither p.seq_val LT w.lower_bound nor p.seq_val GT
\* w.upper_bound.
C1_PacketsWithinBounds ==
  \A n \in Nodes : \A i \in DOMAIN buffered_msgs[n] :
    LET p == buffered_msgs[n][i]
        w == windows[n][p.sw]
    IN  p.used => /\ ~SEQ_VAL_IS_LT(p.seq_val, w.lower_bound)
                  /\ ~SEQ_VAL_IS_GT(p.seq_val, w.upper_bound)

\* C2: a roll_trickle_icmp_input of a validated message (every sequence
\* list of it is parsed) that sets
\* inconsistency in neither controller adds exactly 1 to c of both and
\* resets neither, and it resets a controller only if its processing set
\* that controller's inconsistency.
C2_ConsistentMessageCounts ==
  [][(Called("icmp_input") /\ last'.path = "parsed") =>
       LET set == icmp_sets_inconsistency(St("A"), last'.arg)
       IN  /\ set = {} =>
                /\ last'.resets = {}
                /\ \A m \in 0..1 : t'["A"][m].c = U8(t["A"][m].c + 1)
           /\ last'.resets \subseteq set]_vars

\* the count, bounds and used bit of every window of node A
WindowShape == [i \in DOMAIN windows["A"] |->
                  [count |-> windows["A"][i].count,
                   lower_bound |-> windows["A"][i].lower_bound,
                   upper_bound |-> windows["A"][i].upper_bound,
                   used |-> windows["A"][i].used]]

\* C3: when roll_trickle_accept gets to allocate a packet and neither
\* buffer_allocate nor buffer_reclaim gives it one, it returns 0 and changes
\* no window's count, bounds or used bit and no packet slot.
C3_NoSlotDropsUnchanged ==
  [][(/\ Called("accept")
      /\ last'.path \in {"no_buffer", "null_write"}
      /\ buffer_allocate(buffered_msgs["A"]) = NULL
      /\ buffer_reclaim(windows["A"], buffered_msgs["A"]).rv = NULL) =>
       /\ last'.rv = 0
       /\ WindowShape' = WindowShape
       /\ buffered_msgs' = buffered_msgs]_vars

\* C4: roll_trickle_accept of an inbound datagram equal to one that is
\* buffered returns 0, leaves the windows, the packets and both timers as
\* they were and counts mcast_in_all and mcast_dropped only.
C4_ReplayLeavesState ==
  [][(/\ Called("accept")
      /\ last'.arg.ok
      /\ \E i \in DOMAIN buffered_msgs["A"] :
           /\ buffered_msgs["A"][i].used
           /\ windows["A"][buffered_msgs["A"][i].sw].used
           /\ buffered_msgs["A"][i].buff = [last'.arg EXCEPT !.ttl = U8(@ - 1)]) =>
       /\ last'.rv = 0
       /\ windows' = windows
       /\ buffered_msgs' = buffered_msgs
       /\ t' = t
       /\ last'.stats = {"mcast_in_all", "mcast_dropped"}]_vars

\* the last call dropped the replay of a datagram that is still buffered
C4_Witness ==
  /\ last.op = "accept" /\ last.path = "seen" /\ last.rv = 0
  /\ \E i \in DOMAIN buffered_msgs["A"] :
       /\ buffered_msgs["A"][i].used
       /\ buffered_msgs["A"][i].buff = [last.arg EXCEPT !.ttl = U8(@ - 1)]

\* C5: a datagram admitted while every packet slot is used replaces exactly
\* one packet: the one whose seq_val is the lower_bound of a window of the
\* largest count, which is at least 2; that window stays used, loses one
\* from its count (and gains the new packet if it is its window) and its
\* lower_bound becomes the lowest of its remaining packets.
C5_ReclaimEvictsLowerBound ==
  [][(/\ Called("accept")
      /\ last'.path = "admitted"
      /\ \A i \in DOMAIN buffered_msgs["A"] : buffered_msgs["A"][i].used) =>
       LET msgs == buffered_msgs["A"]
           wins == windows["A"]
           gone == {i \in DOMAIN msgs : buffered_msgs'["A"][i] # msgs[i]}
       IN  /\ Cardinality(gone) = 1
           /\ \A i \in gone :
                LET p == msgs[i]
                    w == wins[p.sw]
                    w2 == windows'["A"][p.sw]
                    new == buffered_msgs'["A"][i]
                    rest == {j \in DOMAIN msgs \ gone : msgs[j].sw = p.sw}
                IN  /\ SEQ_VAL_IS_EQ(p.seq_val, w.lower_bound)
                    /\ \A j \in DOMAIN wins : wins[j].count <= w.count
                    /\ w.count > 1
                    /\ new.used /\ new.seq_val = last'.arg.seq
                    /\ w2.used
                    /\ w2.count = w.count - 1 + (IF new.sw = p.sw THEN 1 ELSE 0)
                    /\ \E j \in rest : w2.lower_bound = msgs[j].seq_val
                    /\ \A j \in rest : ~SEQ_VAL_IS_LT(msgs[j].seq_val, w2.lower_bound)]_vars

\* the last call admitted a datagram into the slot of a packet it evicted
C5_Witness ==
  /\ last.op = "accept" /\ last.path = "admitted"
  /\ last.evicted.slot # NULL
  /\ \A i \in DOMAIN buffered_msgs["A"] : buffered_msgs["A"][i].used

\* C8: a handle_timer pass of a controller whose k is
\* ROLL_TRICKLE_INFINITE_REDUNDANCY sends no control message.
C8_InfiniteRedundancyIsSilent ==
  (last.op = "handle_timer" /\ t[last.node][last.m].k = ROLL_TRICKLE_INFINITE_REDUNDANCY)
    => \A j \in 1 .. Len(last.sent) : last.sent[j].kind # "icmp"

\* a pass of the controller with infinite redundancy has forwarded a datagram
C8_Witness ==
  /\ last.op = "handle_timer" /\ last.path = "pass"
  /\ t[last.node][last.m].k = ROLL_TRICKLE_INFINITE_REDUNDANCY
  /\ Len(last.sent) > 0

\* the window of seed 1, M = 0 holds the values 5 and 6 and a packet slot is free
C9_Holds56 ==
  /\ \E i \in DOMAIN windows["A"] :
       /\ windows["A"][i].used
       /\ windows["A"][i].seed_id = 1 /\ windows["A"][i].m = 0
       /\ windows["A"][i].count = 2
       /\ windows["A"][i].lower_bound = 5 /\ windows["A"][i].upper_bound = 6
       /\ \A v \in {5, 6} : \E j \in DOMAIN buffered_msgs["A"] :
            /\ buffered_msgs["A"][j].used
            /\ buffered_msgs["A"][j].sw = i
            /\ buffered_msgs["A"][j].seq_val = v
  /\ \E j \in DOMAIN buffered_msgs["A"] : ~buffered_msgs["A"][j].used

\* C9 (as the code has it): with 5 and 6 admitted for a (seed, M) and a slot
\* free, the datagram with value 3 is dropped as too old: the call returns 0
\* and the window keeps count = 2, lower_bound = 5 and upper_bound = 6.
C9_OlderValueDropped ==
  [][(Called("accept") /\ last'.arg = K1(3) /\ C9_Holds56) =>
       /\ last'.rv = 0
       /\ last'.path = "too_old"
       /\ windows' = windows
       /\ buffered_msgs' = buffered_msgs]_vars

\* C9 (as stated): after 5, 6 and then 3 the window has count = 3,
\* lower_bound = 3 and upper_bound = 6.
C9_OlderValueAdmitted ==
  [][(Called("accept") /\ last'.arg = K1(3) /\ C9_Holds56) =>
       \E i \in DOMAIN windows["A"] :
         /\ windows'["A"][i].seed_id = 1 /\ windows'["A"][i].m = 0
         /\ windows'["A"][i].count = 3
         /\ windows'["A"][i].lower_bound = 3
         /\ windows'["A"][i].upper_bound = 6]_vars

\* the value 3 has just been offered to the window holding 5 and 6
C9_Witness ==
  /\ last.op = "accept" /\ last.arg = K1(3) /\ last.path = "too_old"
  /\ C9_Holds56

\* C10: a buffered packet p of a listed window w that the message does not
\* list, with p.seq_val GT w.min_listed, is marked must-send and the
\* controller of w's M has inconsistency set and is reset.
C10_WeHaveNewResetsOwnTimer ==
  [][(Called("icmp_input") /\ last'.path = "parsed") =>
       LET ps == icmp_parsed(St("A"), last'.arg)
       IN  \A i \in DOMAIN ps.buffered_msgs :
             LET p == ps.buffered_msgs[i]
                 w == ps.windows[p.sw]
             IN  (/\ p.used /\ w.listed /\ ~p.listed
                  /\ w.min_listed >= 0
                  /\ SEQ_VAL_IS_GT(p.seq_val, w.min_listed)) =>
                   /\ buffered_msgs'["A"][i].must_send
                   /\ t'["A"][SLIDING_WINDOW_GET_M(w)].inconsistency = 1
                   /\ SLIDING_WINDOW_GET_M(w) \in last'.resets]_vars

\* C6: in a handle_timer pass of timer M a packet of M is freed if and only
\* if its dwell, with the time of this pass added, exceeds TRICKLE_DWELL; the
\* pass takes the packets it frees from their window's count and releases
\* the window if and only if none of its packets is left.
C6_ExpiryAtFirstPassOver ==
  [][(last'.op = "handle_timer" /\ last'.path = "pass" /\ t' # t) =>
       LET m == last'.m
           param == t["A"][m]
           msgs == buffered_msgs["A"]
           wins == windows["A"]
           diff_last == Clk(now - param.t_last_trigger)
           diff_start == Clk(now - param.t_start)
           ofM == {i \in DOMAIN msgs : msgs[i].used /\ wins[msgs[i].sw].m = m}
           over == {i \in ofM :
                      msgs[i].dwell + (IF msgs[i].active = 0 THEN diff_start
                                       ELSE diff_last) > TRICKLE_DWELL(param)}
       IN  \A i \in ofM :
             LET sw == msgs[i].sw
                 held == {j \in DOMAIN msgs : msgs[j].used /\ msgs[j].sw = sw}
             IN  /\ buffered_msgs'["A"][i].used = (i \notin over)
                 /\ i \in over =>
                      /\ windows'["A"][sw].count =
                           wins[sw].count - Cardinality(held \cap over)
                      /\ windows'["A"][sw].used = ~(held \subseteq over)]_vars

\* node n holds the datagram of seed S with sequence value seq
Holds(n, seq) ==
  \E i \in DOMAIN buffered_msgs[n] :
    /\ buffered_msgs[n][i].used
    /\ buffered_msgs[n][i].seq_val = seq
    /\ buffered_msgs[n][i].buff.seed = SelfSeed("S")

\* C7: on the line S - A - B a datagram that roll_trickle_out has queued at S
\* with hop limit 2 is in time admitted at A and in time admitted at B.  Up
\* to NetClock: A admits it and, unless A still runs at NetClock with its
\* pass to come, B admits it.
C7_Dissemination ==
  /\ Holds("S", 1) ~> Holds("A", 1)
  /\ Holds("S", 1) ~> (Holds("B", 1) \/ (now = NetClock /\ ~crashed["A"]))

\* the sequence list j of msg is reached by the parse loop and parsed
RecordParsed(msg, j) ==
  /\ msg.ok
  /\ j \in 1 .. Len(msg.recs)
  /\ \A k \in 1 .. j : ~msg.recs[k].res /\ msg.recs[k].s_ok

\* sequence list j of msg names a used window of wins and lists a value GT
\* the window's upper bound
TheyHaveNew(wins, msg, j) ==
  /\ RecordParsed(msg, j)
  /\ LET sw == window_lookup(wins, msg.recs[j].seed_id, msg.recs[j].m)
     IN  /\ sw # NULL
         /\ wins[sw].used
         /\ \E x \in 1 .. Len(msg.recs[j].seqs) :
              SEQ_VAL_IS_GT(msg.recs[j].seqs[x], wins[sw].upper_bound)

\* the controller m of node A has just been reset, at a clock time read
\* during this call
JustReset(m) ==
  /\ t'["A"][m].i_current = 0
  /\ t'["A"][m].c = 0
  /\ Clk(t'["A"][m].t_start - now) <= Clk(now' - now)
  /\ t'["A"][m].ct.f = "handle_timer"
  /\ t'["A"][m].ct.start = t'["A"][m].t_start

\* C11: a control message with a sequence list for a known window of M that
\* lists a value GT the window's upper_bound sets inconsistency of controller
\* M and resets it (i_current = 0, c = 0, handle_timer armed again) before
\* roll_trickle_icmp_input returns.
C11_TheyHaveNewResets ==
  [][Called("icmp_input") =>
       \A j \in 1 .. Len(last'.arg.recs) :
         TheyHaveNew(windows["A"], last'.arg, j) =>
           LET m == last'.arg.recs[j].m
           IN  /\ t'["A"][m].inconsistency = 1
               /\ m \in last'.resets
               /\ JustReset(m)]_vars

\* the last control message listed 6 for the window of seed 1, M = 0, that
\* holds 5 only, and controller 0 was reset
C11_Witness ==
  /\ last.op = "icmp_input" /\ last.path = "parsed"
  /\ 0 \in last.resets
  /\ \E j \in 1 .. Len(last.arg.recs) : TheyHaveNew(windows["A"], last.arg, j)
  /\ t["A"][0].c = 0 /\ t["A"][0].i_current = 0

\* C12: after roll_trickle_init the first roll_trickle_accept of a valid
\* inbound datagram (seed, M, value s) is admitted: exactly one window is
\* used, with that seed and M, count = 1 and lower_bound = upper_bound = s;
\* exactly one packet is used, attached to it, with seq_val = s, active = 0,
\* dwell = 0, must-send set and the hop limit received minus one; controller
\* M is reset.
C12_FirstAcceptAdmits ==
  [][(Called("accept") /\ calls = 0 /\ last'.arg.ok) =>
       LET dg == last'.arg
           usedW == {i \in DOMAIN windows'["A"] : windows'["A"][i].used}
           usedP == {i \in DOMAIN buffered_msgs'["A"] : buffered_msgs'["A"][i].used}
       IN  /\ last'.rv = 1
           /\ Cardinality(usedW) = 1
           /\ Cardinality(usedP) = 1
           /\ \A i \in usedW :
                /\ windows'["A"][i].seed_id = dg.seed
                /\ windows'["A"][i].m = dg.m
                /\ windows'["A"][i].count = 1
                /\ windows'["A"][i].lower_bound = dg.seq
                /\ windows'["A"][i].upper_bound = dg.seq
           /\ \A i \in usedP :
                /\ buffered_msgs'["A"][i].sw \in usedW
                /\ buffered_msgs'["A"][i].seq_val = dg.seq
                /\ buffered_msgs'["A"][i].active = 0
                /\ buffered_msgs'["A"][i].dwell = 0
                /\ buffered_msgs'["A"][i].must_send
                /\ MCAST_PACKET_TTL(buffered_msgs'["A"][i]) = dg.ttl - 1
           /\ JustReset(dg.m)]_vars

\* what a double_interval call of controller last'.m of node A leaves: one
\* more doubling unless i_current is i_max (so the n-th call after a reset,
\* which leaves 0, leaves min(n, i_max)), the new interval starting at the end
\* of the old one with the length i_min << i_current, and handle_timer armed
DoubleIntervalStep ==
  (last'.op = "double_interval" /\ t' # t) =>
    LET p == t["A"][last'.m]
        q == t'["A"][last'.m]
    IN  /\ q.i_current = (IF p.i_current + 1 < p.i_max
                          THEN p.i_current + 1 ELSE p.i_max)
        /\ q.t_start = p.t_end
        /\ Clk(q.t_end - q.t_start) = Shl(q.i_min, q.i_current)
        /\ q.ct.f = "handle_timer"

\* the clock time clk is inside the interval [t_start, t_end) of controller p
InInterval(p, clk) == Clk(clk - p.t_start) < Clk(p.t_end - p.t_start)

\* C13 (as stated): a double_interval call adds one to i_current unless it is
\* i_max, starts the new interval at the end of the old one and gives it the
\* length i_min << i_current; every handle_timer pass falls inside the
\* interval of its controller.
C13_IntervalsDouble ==
  [][/\ DoubleIntervalStep
     /\ (last'.op = "handle_timer" /\ last'.path = "pass" /\ t' # t) =>
          InInterval(t["A"][last'.m], now)]_vars

\* C13 (amended): a double_interval call adds one to i_current unless it is
\* i_max, starts the new interval at the end of the old one and gives it the
\* length i_min << i_current; a handle_timer pass falls inside the interval
\* of its controller when it is called at the clock time it is due and was
\* armed inside that interval (a pass that is called late, or after a late
\* double_interval, may fall at or past t_end).
C13_IntervalsDoubleOnTime ==
  [][/\ DoubleIntervalStep
     /\ (last'.op = "handle_timer" /\ last'.path = "pass" /\ t' # t) =>
          LET p == t["A"][last'.m]
          IN  (/\ Clk(now - p.ct.start) = p.ct.interval
               /\ InInterval(p, p.ct.start))
                => InInterval(p, now)]_vars

\* the second double_interval call since the reset at clock 0: i_current
\* stays at i_max and the interval [12, 20) follows [4, 12)
C13_Witness ==
  /\ last.op = "double_interval"
  /\ t["A"][last.m].i_current = t["A"][last.m].i_max
  /\ t["A"][last.m].t_start = 12
  /\ t["A"][last.m].t_end = 20

\* C14: every roll_trickle_out call that tags its datagram tags it with the
\* value of the call before plus one modulo 0x8000 and keeps that value in
\* last_seq, whether roll_trickle_accept then admits the datagram or not; a
\* call that does not tag leaves last_seq as it is.
C14_SequenceValuesSucceed ==
  [][Called("out") =>
       IF last'.path = "too_long"
       THEN last'.arg = NULL /\ last_seq'["A"] = last_seq["A"]
       ELSE /\ last'.arg.seq = (IF last_seq["A"] = 32767 THEN 0
                                ELSE last_seq["A"] + 1)
            /\ last_seq'["A"] = last'.arg.seq
            /\ last'.rv = 1 => /\ Len(last'.sent) = 1
                               /\ last'.sent[1].dg.seq = last'.arg.seq]_vars

\* the value 0 has followed 0x7FFF, whose datagram was not admitted
C14_Witness ==
  /\ last.op = "out" /\ last.path # "too_long"
  /\ last.arg.seq = 0 /\ last_seq["A"] = 0
  /\ \A i \in DOMAIN buffered_msgs["A"] :
       buffered_msgs["A"][i].used => buffered_msgs["A"][i].seq_val # 32767


(***************************************************************************)
(* The three comparisons of sequence values, applied to pairs of 15-bit    *)
(* values around 0, 0x4000 and 0x7FFF                                      *)
(***************************************************************************)
SeqVals ==
  (0..SeqSpread) \cup ((16384 - SeqSpread)..(16384 + SeqSpread))
                 \cup ((32767 - SeqSpread)..32767)

SeqValCompare ==
  /\ \E i1 \in SeqVals, i2 \in SeqVals :
       last' = [NoCall EXCEPT !.op = "seq_val_is",
                              !.arg = [i1 |-> i1, i2 |-> i2],
                              !.rv = [eq |-> SEQ_VAL_IS_EQ(i1, i2),
                                      lt |-> SEQ_VAL_IS_LT(i1, i2),
                                      gt |-> SEQ_VAL_IS_GT(i1, i2)]]
  /\ UNCHANGED <<admitted, uip_buf, late,
                 windows, buffered_msgs, t, loctpptr, last_seq, crashed,
                 ready, now, inbox, calls>>

SpecCompare == Init /\ [][SeqValCompare]_vars

\* C15: of SEQ_VAL_IS_EQ, SEQ_VAL_IS_LT and SEQ_VAL_IS_GT at most one holds
\* of a pair of 15-bit values, and none holds exactly when the two values
\* are 0x4000 apart.
C15_ComparisonsExclusive ==
  last.op = "seq_val_is" =>
    LET r == last.rv
        d == IF last.arg.i1 < last.arg.i2 THEN last.arg.i2 - last.arg.i1
             ELSE last.arg.i1 - last.arg.i2
    IN  /\ ~(r.eq /\ r.lt) /\ ~(r.eq /\ r.gt) /\ ~(r.lt /\ r.gt)
        /\ (~r.eq /\ ~r.lt /\ ~r.gt) <=> (d = 16384)

\* 0x4001 and 1 have been compared, and neither is before the other
C15_Witness ==
  /\ last.op = "seq_val_is"
  /\ last.arg.i1 = 16385 /\ last.arg.i2 = 1
  /\ ~last.rv.eq /\ ~last.rv.lt /\ ~last.rv.gt


\* C16: window_lookup returns, for a seed and a parametrization, only a
\* window whose used bit is set.
C16_LookupReturnsUsed ==
  \A s \in 0..3, m \in 0..1 :
    LET w == window_lookup(windows["A"], s, m)
    IN  w # NULL => windows["A"][w].used


(***************************************************************************)
(* One seed whose datagrams carry sequence values 0x4000 apart, with the   *)
(* clock running long enough for its window to be released by expiration   *)
(***************************************************************************)
AcceptX ==
  /\ calls + late < MaxCalls
  /\ calls' = calls + 1
  /\ \E dg \in {K1(5), K1(16389)} : Accept("A", dg)
  /\ UNCHANGED inbox

NextExpire ==
  \/ AcceptX
  \/ HandleTimerA
  \/ DoubleIntervalA
  \/ TickW

SpecExpire == InitNet /\ [][NextExpire]_vars

\* no used window of node A has the seed and parametrization of dg
NoUsedWindow(dg) ==
  \A i \in DOMAIN windows["A"] :
    ~(/\ windows["A"][i].used
      /\ windows["A"][i].seed_id = dg.seed
      /\ SLIDING_WINDOW_GET_M(windows["A"][i]) = dg.m)

\* C17: roll_trickle_accept admits a well-formed datagram of a seed and
\* parametrization without a used window whenever a window and a packet
\* buffer are free, whatever the sequence value and whether or not the seed
\* had a window before.
C17_NewSeedAdmitted ==
  [][(/\ Called("accept")
      /\ last'.arg.ok
      /\ NoUsedWindow(last'.arg)
      /\ \E i \in DOMAIN windows["A"] : ~windows["A"][i].used
      /\ \E i \in DOMAIN buffered_msgs["A"] : ~buffered_msgs["A"][i].used)
     => last'.rv = 1]_vars


\* C18: roll_trickle_icmp_input marks every used packet whose window the
\* message did not list must-send and flags and resets the controller of
\* that window's M; the other controller, if nothing else flags it, is left
\* without inconsistency and is not reset.
C18_NotListedFlagsOwnTimer ==
  [][(Called("icmp_input") /\ last'.path \in {"parsed", "null_write"}) =>
       LET ps == icmp_parsed(St("A"), last'.arg)
           held == {i \in DOMAIN ps.buffered_msgs : ps.buffered_msgs[i].used}
       IN  \A i \in held :
             LET w == ps.windows[ps.buffered_msgs[i].sw]
                 own == SLIDING_WINDOW_GET_M(w)
             IN  ~w.listed =>
                   /\ buffered_msgs'["A"][i].must_send
                   /\ own \in last'.resets
                   /\ (/\ ps.t[1 - own].inconsistency = 0
                       /\ \A j \in held :
                            SLIDING_WINDOW_GET_M(
                              ps.windows[ps.buffered_msgs[j].sw]) = own)
                      => (1 - own) \notin last'.resets]_vars


\* the sequence values of the used packets attached to window w of node A
Attached(msgs, w) == {msgs[i].seq_val : i \in {j \in DOMAIN msgs : msgs[j].used /\ msgs[j].sw = w}}

\* C19: when a handle_timer pass has ended with window_update_bounds, the
\* lower bound and the upper bound of every window with a used packet are
\* sequence values of packets attached to that window.
C19_BoundsNameAttachedPackets ==
  [][(last'.op = "handle_timer" /\ last'.path = "pass" /\ t' # t) =>
       \A w \in DOMAIN windows'["A"] :
         LET att == Attached(buffered_msgs'["A"], w)
         IN  att # {} => /\ windows'["A"][w].lower_bound \in att
                         /\ windows'["A"][w].upper_bound \in att]_vars


(***************************************************************************)
(* The node hears control messages and datagrams of M = 1, whose           *)
(* controller has k = 1, while the clock runs past the fire point of the   *)
(* second interval                                                         *)
(***************************************************************************)
AcceptK ==
  /\ calls + late < MaxCalls
  /\ calls' = calls + 1
  /\ Accept("A", K2(5))
  /\ UNCHANGED inbox
IcmpInputK ==
  /\ calls + late < MaxCalls
  /\ calls' = calls + 1
  /\ \E msg \in {CtrlMsg(<<>>), CtrlMsg(<<L2(<<5>>)>>), CtrlMsg(<<L2(<<>>)>>)},
        d \in 0 .. MaxPassTicks :
       now + d <= DwellClock /\ IcmpInput("A", msg, d)
  /\ UNCHANGED inbox

NextSuppress ==
  \/ AcceptK
  \/ IcmpInputK
  \/ HandleTimerA
  \/ DoubleIntervalA
  \/ TickW

SpecSuppress == InitNet /\ [][NextSuppress]_vars

\* a step that is a handle_timer pass of controller m of node A
HandleTimerPass(m) ==
  /\ last'.op = "handle_timer" /\ last'.path = "pass" /\ last'.m = m
  /\ t'["A"][m] # t["A"][m]
\* the pass has sent a control message
SentIcmp(call) == \E j \in 1..Len(call.sent) : call.sent[j].kind = "icmp"

\* C20: a handle_timer pass of the controller with k = 1 sends a control
\* message if and only if no consistent control message was heard since the
\* start of the current interval: it sends one when double_interval has just
\* opened the interval and nothing was heard since, whatever was heard
\* before, and sends none when the last thing heard in the interval was a
\* consistent control message.
C20_SuppressionCountsCurrentInterval ==
  [][(HandleTimerPass(1) /\ SUPPRESSION_ENABLED(t["A"][1]) /\ last.node = "A") =>
       /\ (last.op = "double_interval" /\ last.m = 1) => SentIcmp(last')
       /\ (/\ last.op = "icmp_input" /\ last.path = "parsed"
           /\ 1 \notin last.resets) => ~SentIcmp(last')]_vars


(***************************************************************************)
(* Interval entry of a controller configured with an Imin of               *)
(* MinImin..MaxImin and an Imax of MaxDoublings: reset_trickle_timer, and  *)
(* double_interval called on time at the end of an interval                *)
(***************************************************************************)
\* a controller of such a build whose interval, the i_current-th, ends at clk
ParamAt(i_min, i_current, clk) ==
  [TIMER_CONFIGURE(0, 0) EXCEPT !.i_min = i_min, !.i_max = MaxDoublings,
                                !.i_current = i_current,
                                !.t_start = Clk(clk - Shl(i_min, i_current)),
                                !.t_end = clk]

IntervalEntry ==
  /\ \E i_min \in MinImin..MaxImin, d \in 0..MaxDoublings,
        rnd \in 0..MaxEntryRand, f \in {"reset_trickle_timer", "double_interval"} :
       LET p == ParamAt(i_min, d, now)
           q == IF f = "double_interval" THEN double_interval(p, now, rnd)
                ELSE reset_trickle_timer([m \in 0..1 |-> p], 0, now, rnd)[0]
       IN  last' = [NoCall EXCEPT !.op = "interval_entry", !.path = f,
                                  !.arg = [i_min |-> i_min, rnd |-> rnd,
                                           i_current |-> q.i_current],
                                  !.rv = q.t_next]
  /\ UNCHANGED <<admitted, uip_buf, late,
                 windows, buffered_msgs, t, loctpptr, last_seq, crashed,
                 ready, now, inbox, calls>>

SpecInterval == Init /\ [][IntervalEntry]_vars

\* C21: the delay reset_trickle_timer and double_interval schedule on
\* entering an interval of length I = i_min << i_current is at least I/2
\* (rounded down) and less than I.
C21_DelayInSecondHalf ==
  last.op = "interval_entry" =>
    LET I == Shl(last.arg.i_min, last.arg.i_current)
    IN  I \div 2 <= last.rv /\ last.rv < I


\* the used windows of node A with the seed and parametrization of dg
UsedWindowsOf(dg) ==
  {i \in DOMAIN windows["A"] :
     /\ windows["A"][i].used
     /\ windows["A"][i].seed_id = dg.seed
     /\ SLIDING_WINDOW_GET_M(windows["A"][i]) = dg.m}

\* C22: roll_trickle_accept drops a well-formed datagram as too old if and
\* only if a used window of its seed and parametrization has a lower bound
\* the sequence value is SEQ_VAL_IS_LT of; the drop returns 0 and leaves
\* windows, packets and controllers as they were.
C22_TooOldOnlyAgainstUsedWindow ==
  [][(Called("accept") /\ last'.arg.ok) =>
       /\ (last'.path = "too_old") <=>
            (\E i \in UsedWindowsOf(last'.arg) :
               SEQ_VAL_IS_LT(last'.arg.seq, windows["A"][i].lower_bound))
       /\ (last'.path = "too_old") =>
            /\ last'.rv = 0
            /\ windows' = windows /\ buffered_msgs' = buffered_msgs /\ t' = t]_vars


\* C23: no two used windows of a node have the same seed id and the same M.
C23_UsedWindowsUnique ==
  \A i \in DOMAIN windows["A"], j \in DOMAIN windows["A"] :
    (/\ i # j
     /\ windows["A"][i].used /\ windows["A"][j].used
     /\ windows["A"][i].seed_id = windows["A"][j].seed_id)
      => SLIDING_WINDOW_GET_M(windows["A"][i]) # SLIDING_WINDOW_GET_M(windows["A"][j])

\* after the expiry pass a datagram has been admitted to the released slot
\* of its seed while the other window, released too and still naming seed 1,
\* is not used
C23_Witness ==
  /\ now >= 9
  /\ last.op = "accept" /\ last.path = "admitted"
  /\ \E i \in DOMAIN windows["A"], j \in DOMAIN windows["A"] :
       /\ i # j
       /\ windows["A"][i].used /\ windows["A"][i].count = 1
       /\ windows["A"][i].seed_id = last.arg.seed
       /\ ~windows["A"][j].used /\ windows["A"][j].upper_bound >= 0


\* C24: for both controllers the interval [t_start, t_end) has the length
\* i_min << i_current, and i_current is within 0..i_max.
C24_IntervalLength ==
  \A m \in 0..1 :
    LET p == t["A"][m]
    IN  /\ Clk(p.t_end - p.t_start) = Shl(p.i_min, p.i_current)
        /\ 0 <= p.i_current /\ p.i_current <= p.i_max

\* one controller is in its second interval of the largest length while
\* the other one has been reset by a datagram since
C24_Witness ==
  /\ \E m \in 0..1 :
       /\ t["A"][m].i_current = t["A"][m].i_max
       /\ t["A"][m].t_start = 12
       /\ t["A"][1 - m].i_current = 0
       /\ t["A"][1 - m].t_start > 0


(***************************************************************************)
(* Datagrams of both parametrizations, one of them arriving with a hop     *)
(* limit of 1, while the clock runs to DwellClock                          *)
(***************************************************************************)
AcceptF ==
  /\ calls + late < MaxCalls
  /\ calls' = calls + 1
  /\ \E dg \in {K1(5), K2(5), Dgram(3, 1, 6, 1)} : Accept("A", dg)
  /\ UNCHANGED inbox

NextForward ==
  \/ AcceptF
  \/ HandleTimerA
  \/ DoubleIntervalA
  \/ TickW

SpecForward == InitNet /\ [][NextForward]_vars

\* how often the call has sent the datagram dg
TimesSent(call, dg) ==
  Cardinality({j \in 1..Len(call.sent) :
                 call.sent[j].kind = "dgram" /\ call.sent[j].dg = dg})

\* C25: a handle_timer pass of controller m sends a used packet of m that it
\* does not free if and only if the packet's hop limit is above 0 and either
\* suppression is enabled and the packet is marked must-send, or suppression
\* is disabled and the packet's active time is below TRICKLE_ACTIVE; it sends
\* it once and clears the mark.  The packets of the other controller are
\* left as they are and are not sent.
C25_ForwardRule ==
  [][(\E m \in 0..1 : HandleTimerPass(m)) =>
       LET m == last'.m
           param == t["A"][m]
           msgs == buffered_msgs["A"]
           diff_last == Clk(now - param.t_last_trigger)
           diff_start == Clk(now - param.t_start)
       IN  \A i \in DOMAIN msgs :
             LET p == msgs[i]
                 q == buffered_msgs'["A"][i]
                 aged == IF p.active = 0 THEN diff_start ELSE diff_last
                 due == /\ MCAST_PACKET_TTL(p) > 0
                        /\ \/ (param.k # ROLL_TRICKLE_INFINITE_REDUNDANCY /\ p.must_send)
                           \/ (/\ param.k = ROLL_TRICKLE_INFINITE_REDUNDANCY
                               /\ p.active + aged < TRICKLE_ACTIVE(param))
             IN  IF ~p.used THEN q = p
                 ELSE IF SLIDING_WINDOW_GET_M(windows["A"][p.sw]) # m
                 THEN q = p /\ TimesSent(last', p.buff) = 0
                 ELSE IF p.dwell + aged > TRICKLE_DWELL(param)
                 THEN ~q.used /\ TimesSent(last', p.buff) = 0
                 ELSE /\ q.used
                      /\ TimesSent(last', p.buff) = (IF due THEN 1 ELSE 0)
                      /\ due => ~q.must_send
                      /\ ~due => q.must_send = p.must_send]_vars

\* a pass of the controller with k = 1 has sent the marked packet 5 of seed 3
\* and kept back the marked packet 6, whose hop limit is 0
C25_Witness ==
  /\ last.op = "handle_timer" /\ last.path = "pass" /\ last.m = 1
  /\ TimesSent(last, [K2(5) EXCEPT !.ttl = 1]) = 1
  /\ \E i \in DOMAIN buffered_msgs["A"] :
       /\ buffered_msgs["A"][i].used
       /\ buffered_msgs["A"][i].seq_val = 6
       /\ MCAST_PACKET_TTL(buffered_msgs["A"][i]) = 0
       /\ buffered_msgs["A"][i].must_send


\* C26: when roll_trickle_icmp_input parses a sequence list of a seed and M
\* of which the node has no used window and returns, controller M has been
\* flagged and reset.
C26_UnknownWindowResets ==
  [][(Called("icmp_input") /\ last'.path \in {"parsed", "drop"}) =>
       \A j \in 1..Len(last'.arg.recs) :
         (/\ RecordParsed(last'.arg, j)
          /\ UsedWindowsOf([seed |-> last'.arg.recs[j].seed_id,
                            m |-> last'.arg.recs[j].m]) = {})
           => /\ last'.arg.recs[j].m \in last'.resets
              /\ JustReset(last'.arg.recs[j].m)]_vars


\* C27: a handle_timer call that finds no preferred link-local address resets
\* its controller, arming handle_timer again, and does nothing else: it sends
\* nothing and leaves every window, every packet and the other controller as
\* they were.
C27_NotReadyDefers ==
  [][(last'.op = "handle_timer" /\ t' # t /\ ~ready["A"]) =>
       /\ last'.path = "not_ready"
       /\ last'.sent = <<>>
       /\ windows' = windows
       /\ buffered_msgs' = buffered_msgs
       /\ JustReset(last'.m)
       /\ t'["A"][1 - last'.m] = t["A"][1 - last'.m]]_vars

\* handle_timer has deferred while a marked packet of its controller was
\* waiting to be sent
C27_Witness ==
  /\ last.op = "handle_timer" /\ last.path = "not_ready"
  /\ \E i \in DOMAIN buffered_msgs["A"] :
       /\ buffered_msgs["A"][i].used
       /\ buffered_msgs["A"][i].must_send
       /\ SLIDING_WINDOW_GET_M(windows["A"][buffered_msgs["A"][i].sw]) = last.m


\* the used packets of node A attached to window w
PacketsOf(w) ==
  {i \in DOMAIN buffered_msgs["A"] :
     buffered_msgs["A"][i].used /\ buffered_msgs["A"][i].sw = w}

\* C28: every used packet is attached to a used window, every window counts
\* the used packets attached to it, and a window is used exactly when it
\* counts at least one.
C28_CountIsAttachedPackets ==
  /\ \A i \in DOMAIN buffered_msgs["A"] :
       buffered_msgs["A"][i].used =>
         /\ buffered_msgs["A"][i].sw \in DOMAIN windows["A"]
         /\ windows["A"][buffered_msgs["A"][i].sw].used
  /\ \A w \in DOMAIN windows["A"] :
       /\ windows["A"][w].count = Cardinality(PacketsOf(w))
       /\ windows["A"][w].used <=> windows["A"][w].count >= 1


\* sequence list j of msg names the used window w of node A and lists only
\* values SEQ_VAL_IS_LT every packet the node buffers for w
ListsOnlyOlder(msg, j, w) ==
  /\ RecordParsed(msg, j)
  /\ w = window_lookup(windows["A"], msg.recs[j].seed_id, msg.recs[j].m)
  /\ w # NULL
  /\ windows["A"][w].used
  /\ PacketsOf(w) # {}
  /\ Len(msg.recs[j].seqs) > 0
  /\ \A x \in 1..Len(msg.recs[j].seqs), i \in PacketsOf(w) :
       SEQ_VAL_IS_LT(msg.recs[j].seqs[x], buffered_msgs["A"][i].seq_val)

\* C29: when a control message lists for a window only values older than
\* every packet buffered for it, roll_trickle_icmp_input marks every packet
\* of the window must-send and resets the controller of the window's M.
C29_NeighbourBehindResets ==
  [][(Called("icmp_input") /\ last'.path = "parsed") =>
       \A j \in 1..Len(last'.arg.recs), w \in DOMAIN windows["A"] :
         ListsOnlyOlder(last'.arg, j, w) =>
           /\ \A i \in PacketsOf(w) : buffered_msgs'["A"][i].must_send
           /\ SLIDING_WINDOW_GET_M(windows["A"][w]) \in last'.resets]_vars


(***************************************************************************)
(* A neighbour B whose windows and packets are those of node A and whose   *)
(* inconsistency flags are clear hears the control message icmp_output     *)
(* builds at A.  The build has room for one packet more; node A admits at  *)
(* most MaxCalls datagrams of one seed, whose values lie next to one       *)
(* another, across the wrap, or half the value space apart, and its clock  *)
(* runs to DataClock, past the first handle_timer pass.                    *)
(***************************************************************************)
\* the statics of the neighbour
Twin ==
  [St("A") EXCEPT !.t = [m \in 0..1 |-> [t["A"][m] EXCEPT !.inconsistency = 0]]]

\* what roll_trickle_icmp_input did at the neighbour: r is its result
TwinHeard(r) ==
  [NoCall EXCEPT
     !.node = "B", !.op = "icmp_from_twin",
     !.path = r.path, !.stats = r.stats, !.resets = r.resets,
     !.rv = [flagged |-> <<r.t[0].inconsistency # 0, r.t[1].inconsistency # 0>>,
             counted |-> <<r.t[0].c = U8(t["A"][0].c + 1),
                           r.t[1].c = U8(t["A"][1].c + 1)>>,
             marked |-> \E i \in DOMAIN r.buffered_msgs :
                          /\ r.buffered_msgs[i].must_send
                          /\ ~buffered_msgs["A"][i].must_send]]

IcmpFromTwin ==
  /\ ~crashed["A"]
  /\ \E rnd0 \in ResetDraws("A", 0), rnd1 \in ResetDraws("A", 1) :
       last' = TwinHeard(roll_trickle_icmp_input(
                           Twin,
                           icmp_received(
                             icmp_output_payload(windows["A"], buffered_msgs["A"],
                                                 uip_buf["A"]),
                             uip_buf["A"]),
                           <<now, now>>, rnd0, rnd1, FALSE))
  /\ UNCHANGED <<admitted, uip_buf, late,
                 windows, buffered_msgs, t, loctpptr, last_seq, crashed,
                 ready, now, inbox, calls>>

AcceptT ==
  /\ calls + late < MaxCalls
  /\ calls' = calls + 1
  /\ \E dg \in {K1(5), K1(6), K1(16389), K1(32767), K1(0)} : Accept("A", dg)
  /\ UNCHANGED inbox

NextTwin ==
  \/ AcceptT
  \/ HandleTimerA
  \/ DoubleIntervalA
  \/ AddrPreferredA
  \/ TickA
  \/ IcmpFromTwin

SpecTwin == InitBuff3 /\ [][NextTwin]_vars

\* C30: the control message icmp_output builds from a node's windows and
\* packets is consistent for a neighbour with the same windows and packets
\* and clear inconsistency flags: roll_trickle_icmp_input flags and resets
\* neither controller, marks no packet must-send and counts the message in
\* both controllers.
C30_OwnMessageIsConsistent ==
  last.op = "icmp_from_twin" =>
    /\ last.path = "parsed"
    /\ last.rv.flagged = <<FALSE, FALSE>>
    /\ last.resets = {}
    /\ ~last.rv.marked
    /\ last.rv.counted = <<TRUE, TRUE>>


\* A node with a preferred link-local address hears at most MaxReadmitCalls
\* datagrams of one seed, with the values 5, 6 and 7, while the clock runs
\* to DwellClock.
AcceptR ==
  /\ calls + late < MaxReadmitCalls
  /\ calls' = calls + 1
  /\ \E dg \in {K1(5), K1(6), K1(7)} : Accept("A", dg)
  /\ UNCHANGED inbox

NextReadmit ==
  \/ AcceptR
  \/ HandleTimerA
  \/ DoubleIntervalA
  \/ TickW

SpecReadmit == InitNet /\ [][NextReadmit]_vars

\* the entries of admitted (adm) for the seed, M and value of the datagram dg
AdmittedAs(adm, dg) ==
  {a \in adm : a.seed = dg.seed /\ a.m = dg.m /\ a.seq = dg.seq}

\* C31: roll_trickle_accept does not return 1 for a (seed, M, sequence
\* value) it has returned 1 for since the window of (seed, M) is used.
C31_NoReadmission ==
  [][(Called("accept") /\ last'.rv = 1) =>
       AdmittedAs(admitted["A"], last'.arg) = {}]_vars


\* A node with a preferred link-local address hears at most MaxCalls
\* datagrams of two seeds, with hop limit 0, 1 or 2, while the clock runs to
\* DataClock.
AcceptH ==
  /\ calls + late < MaxCalls
  /\ calls' = calls + 1
  /\ \E h \in 0..2 : \E dg \in {Dgram(1, 0, 5, h), Dgram(3, 1, 5, h)} :
       Accept("A", dg)
  /\ UNCHANGED inbox

NextHop ==
  \/ AcceptH
  \/ HandleTimerA
  \/ DoubleIntervalA
  \/ TickA

SpecHop == InitNet /\ [][NextHop]_vars

\* C32: every datagram a handle_timer pass sends carries a hop limit above 0
\* and below the hop limit with which roll_trickle_accept admitted it as an
\* inbound datagram.
C32_HopLimitDecreases ==
  [][(\E m \in 0..1 : HandleTimerPass(m)) =>
       \A j \in 1..Len(last'.sent) :
         last'.sent[j].kind = "dgram" =>
           /\ last'.sent[j].dg.ttl > 0
           /\ \A a \in AdmittedAs(admitted["A"], last'.sent[j].dg) :
                a.in = ROLL_TRICKLE_DGRAM_IN => last'.sent[j].dg.ttl < a.h]_vars


\* the callback f of controller m of node A is due
Due(m, f) ==
  /\ ~crashed["A"]
  /\ t["A"][m].ct.f = f
  /\ ctimer_expired(t["A"][m].ct, now)

\* A node that hears at most MaxResets datagrams while the clock runs to
\* MaxClock, with fair timers: a due callback is called, late or not, and the
\* clock advances to MaxClock when no callback is due.
AcceptZ ==
  /\ calls < MaxResets
  /\ calls' = calls + 1
  /\ \E dg \in {K1(5), K2(5)} : Accept("A", dg)
  /\ UNCHANGED inbox

TickZ == Tick({"A"}, MaxClock)

NextAlternate ==
  \/ AcceptZ
  \/ HandleTimerA
  \/ DoubleIntervalA
  \/ AddrPreferredA
  \/ TickZ

FairTimers ==
  /\ \A m \in 0..1 :
       \/ []<>~Due(m, "handle_timer")
       \/ []<><<HandleTimerOf(m)>>_vars
  /\ \A m \in 0..1 :
       \/ []<>~Due(m, "double_interval")
       \/ []<><<DoubleInterval("A", m)>>_vars
  /\ \/ []<>(now = MaxClock \/ \E m \in 0..1, f \in {"handle_timer", "double_interval"} :
                                   Due(m, f))
     \/ []<><<TickZ>>_vars

SpecAlternate == Init /\ [][NextAlternate]_vars /\ FairTimers

\* the ctimer slot of controller m of node A holds the callback f, due by
\* MaxClock
Pending(m, f) ==
  /\ t["A"][m].ct.f = f
  /\ t["A"][m].ct.start + t["A"][m].ct.interval <= MaxClock

\* this step sets the ctimer slot of controller m of node A to the callback f
Arms(m, f) ==
  /\ t'["A"][m].ct.f = f
  /\ t'["A"][m].ct.start = now'
  /\ t'["A"][m].ct.interval = t'["A"][m].t_next

\* C33: the ctimer slot of a controller holds one callback at a time: a reset
\* sets it to handle_timer, a handle_timer pass finds handle_timer in it and
\* sets it to double_interval, a double_interval call finds double_interval in
\* it and sets it to handle_timer, and nothing else changes it.  With a
\* preferred address and fair timers a pending handle_timer due by MaxClock is
\* followed by double_interval unless a reset puts it off past MaxClock, and a
\* pending double_interval due by MaxClock is followed by handle_timer.
C33_CallbacksAlternate ==
  /\ [][\A m \in 0..1 :
          t'["A"][m].ct # t["A"][m].ct =>
            \/ /\ last'.node = "A" /\ m \in last'.resets
               /\ Arms(m, "handle_timer")
            \/ /\ last'.op = "handle_timer" /\ last'.path = "pass" /\ last'.m = m
               /\ t["A"][m].ct.f = "handle_timer"
               /\ Arms(m, "double_interval")
            \/ /\ last'.op = "double_interval" /\ last'.m = m
               /\ t["A"][m].ct.f = "double_interval"
               /\ Arms(m, "handle_timer")]_vars
  /\ \A m \in 0..1 :
       /\ (ready["A"] /\ Pending(m, "handle_timer"))
            ~> \/ t["A"][m].ct.f = "double_interval"
               \/ ~Pending(m, "handle_timer")
               \/ crashed["A"]
       /\ Pending(m, "double_interval")
            ~> \/ t["A"][m].ct.f = "handle_timer"
               \/ crashed["A"]

\* handle_timer has been called for the second time since the reset at clock
\* 0, after a double_interval call, and has armed double_interval again
C33_Witness ==
  /\ last.op = "handle_timer" /\ last.path = "pass"
  /\ t["A"][last.m].t_start = 4
  /\ t["A"][last.m].i_current = 1
  /\ t["A"][last.m].ct.f = "double_interval"
  /\ now >= 8


\* A node that runs roll_trickle_init at the clock time BootClock, shortly
\* before the clock wraps, with a preferred link-local address; it hears at
\* most MaxResets datagrams while the clock runs LateTicks ticks on, through
\* the wrap.
InitLate ==
  /\ \E r0 \in Draws(ROLL_TRICKLE_IMIN_0, 0), r1 \in Draws(ROLL_TRICKLE_IMIN_1, 0),
        clks \in InitReads(BootClock) :
       LET i == roll_trickle_init(ROLL_TRICKLE_WINS, ROLL_TRICKLE_BUFF_NUM,
                                  clks, r0, r1)
       IN  /\ now = clks[4]
           /\ late = Clk(clks[4] - clks[1])
           /\ windows = [n \in Nodes |-> i.windows]
           /\ buffered_msgs = [n \in Nodes |-> i.buffered_msgs]
           /\ t = [n \in Nodes |-> i.t]
  /\ loctpptr = [n \in Nodes |-> NULL]
  /\ uip_buf = [n \in Nodes |-> uip_buf_init]
  /\ last_seq = [n \in Nodes |-> 0]
  /\ crashed = [n \in Nodes |-> FALSE]
  /\ ready = [n \in Nodes |-> TRUE]
  /\ inbox = [n \in Nodes |-> <<>>]
  /\ calls = 0
  /\ last = NoCall
  /\ admitted = [n \in Nodes |-> {}]

\* the wrapping clock advances: a due callback of node A is called when it is
\* due or up to MaxLag ticks late
TickL ==
  /\ Clk(now - BootClock) < LateTicks
  /\ \A m \in 0..1 :
       ctimer_expired(t["A"][m].ct, now)
         => Clk(now - t["A"][m].ct.start) - t["A"][m].ct.interval < MaxLag
  /\ DueIn({"A"}) => calls + late < MaxLate
  /\ now' = Clk(now + 1)
  /\ late' = IF DueIn({"A"}) THEN late + 1 ELSE late
  /\ UNCHANGED <<admitted, uip_buf,
                 windows, buffered_msgs, t, loctpptr, last_seq, crashed, ready,
                 inbox, calls, last>>

\* a pass of node A during which the wrapping clock advances by at most
\* MaxPassTicks ticks
HandleTimerLate ==
  \E m \in 0..1, d \in 0 .. MaxPassTicks :
    /\ Clk(now - BootClock) + d <= LateTicks
    /\ HandleTimer("A", m, d)
    /\ UNCHANGED inbox

NextLate ==
  \/ AcceptZ
  \/ HandleTimerLate
  \/ DoubleIntervalA
  \/ TickL

SpecLate == InitLate /\ [][NextLate]_vars

\* the interval of the controller p has ended at the clock time clk: the
\* time since t_start is the length of the interval or more
IntervalEnded(p, clk) == Clk(clk - p.t_start) >= Clk(p.t_end - p.t_start)

\* C34: a handle_timer pass arms double_interval with the delay 0 only when
\* the interval of its controller has ended; when it has not, the delay is
\* the time left to t_end, (t_end - now) modulo the range of the clock, now
\* being the clock time at which the pass arms the callback.
C34_DelayToIntervalEnd ==
  [][\A m \in 0..1 :
       HandleTimerPass(m) =>
         /\ t'["A"][m].ct.f = "double_interval"
         /\ t'["A"][m].ct.interval = 0 => IntervalEnded(t["A"][m], now')
         /\ ~IntervalEnded(t["A"][m], now') =>
              t'["A"][m].ct.interval = Clk(t["A"][m].t_end - now')]_vars

====
